---- MODULE Spec2Model ----
(***************************************************************************)
(* Model of the model-search and Pareto-selection engine of Robyn's        *)
(* Python port:                                                            *)
(*   - RidgeModelBuilder.build_models / _model_train /                     *)
(*     _run_nevergrad_optimization / _evaluate_model  (the search loop),   *)
(*   - BaseModelExecutor._setup_nevergrad_optimizer,                       *)
(*   - ParetoOptimizer._compute_pareto_fronts / _pareto_fronts /           *)
(*     prepare_pareto_data (the Pareto selection).                         *)
(* Floating point values are modelled as records (finite / inf / nan) over *)
(* small naturals; tables are sequences of row records.                    *)
(***************************************************************************)
EXTENDS Integers, Sequences, FiniteSets, TLC

(***************************************************************************)
(* Bounds of the model.                                                    *)
(***************************************************************************)
MaxIter == 2      \* iterations per trial
MaxTrials == 2    \* trials per run
MaxEvals == 3     \* evaluations per run (iterations * trials)
MaxPop == 3       \* candidates in the aggregated population
MaxFronts == 2    \* a numeric pareto_fronts argument
MaxMinCandidates == 3
MaxRows == 6      \* rows of the modelling window
MaxLen == 3       \* length of a media series
MaxSpend == 2     \* largest value of a media series
FracDen == 2      \* theta and gamma are multiples of 1 / FracDen
MaxAlpha == 2     \* largest Hill exponent
MaxTasks == 3     \* rows of decomp_spend_dist handed to the workers
MaxDate == 3      \* dates of the input data are 1..MaxDate
MaxChannels == 3  \* paid media channels fitted by _run_models

(***************************************************************************)
(* Floats: finite naturals, +inf and NaN, with IEEE-754 comparison.        *)
(***************************************************************************)
Fin(n) == [k |-> "fin", v |-> n]
Inf == [k |-> "inf", v |-> 0]
NaN == [k |-> "nan", v |-> 0]

FLess(a, b) ==
    /\ a.k # "nan"
    /\ b.k # "nan"
    /\ \/ a.k = "fin" /\ b.k = "inf"
       \/ a.k = "fin" /\ b.k = "fin" /\ a.v < b.v

FAdd(a, b) ==
    IF a.k = "nan" \/ b.k = "nan" THEN NaN
    ELSE IF a.k = "inf" \/ b.k = "inf" THEN Inf
    ELSE Fin(a.v + b.v)

FScale(w, a) ==
    IF a.k = "nan" THEN NaN
    ELSE IF a.k = "inf" THEN (IF w = 0 THEN NaN ELSE Inf)
    ELSE Fin(w * a.v)

(***************************************************************************)
(* Hyperparameters: a mapping name -> value, a value being a Python list   *)
(* or a scalar.                                                            *)
(***************************************************************************)
HyperNames == {"tv_thetas", "tv_alphas"}
ListValue(items) == [isList |-> TRUE, items |-> items]
ScalarValue(x) == [isList |-> FALSE, items |-> <<x>>]
HyperValues == {ListValue(<<0, 1>>), ListValue(<<1>>), ScalarValue(1)}

None == [none |-> TRUE]

NoError == [type |-> "none", where |-> "none"]
Raise(type, where) == [type |-> type, where |-> where]

\* the pareto_fronts argument: "auto" or a number of fronts
Auto == [auto |-> TRUE, n |-> 0]
Fronts(n) == [auto |-> FALSE, n |-> n]

VARIABLES
    hyperparameters,    \* Hyperparameters.hyperparameters (name -> value)
    dt_hyper_fixed,     \* TRUE iff dt_hyper_fixed is not None
    calibration_input,  \* TRUE iff self.calibration_input is truthy
    objective_weights,  \* <<>> for None, else the caller's list (units of 1/6)
    iterations,         \* trials_config.iterations
    n_trials,           \* trials_config.trials
    seed,               \* build_models(seed=...)
    entry,              \* which entry point runs
    hyper_collect,      \* result of _hyper_collector / _prepare_hyperparameters
    pc,                 \* position in the running code
    trial,              \* loop variable of _model_train
    np_seed,            \* argument of np.random.seed
    np_draws,           \* np.random.randn calls since np.random.seed
    iter_ng,            \* loop variable of _run_nevergrad_optimization
    optimizer,          \* the nevergrad optimizer of the current trial
    candidate,          \* candidate.kwargs of the last ask
    result,             \* tuple returned by the last _evaluate_model
    best,               \* the best_* locals
    evals,              \* history: what _evaluate_model returned in this trial
    calls,              \* history: optimizer/evaluator calls of this trial
    trials,             \* list of Trial objects built so far
    error,              \* exception that left the entry point, or "none"
    result_hyp_param,   \* aggregated_data["result_hyp_param"], one row per candidate
    pareto_fronts,      \* argument pareto_fronts: "auto" or a number
    min_candidates,     \* argument min_candidates
    calibration_constraint, \* argument calibration_constraint, in tenths
    hyper_fixed,        \* model_outputs.hyper_fixed
    is_calibrated,      \* some trial has a lift_calibration
    ppc,                \* position in ParetoOptimizer.optimize
    resultHypParamPareto, \* the admissible rows (local of _compute_pareto_fronts)
    data,               \* local of _pareto_fronts: the points not yet labelled
    pareto_fronts_df,   \* local of _pareto_fronts: the labelled points
    front_i,            \* local i of _pareto_fronts: the front counter
    pareto_data,        \* the ParetoData returned by prepare_pareto_data
    perror,             \* exception that left optimize, or "none"
    ts_validation,      \* argument ts_validation of _evaluate_model
    n_rows,             \* len(X): rows of the modelling window, in time order
    train_size,         \* params.get("train_size", 0.8), in tenths
    epc,                \* position in _evaluate_model
    X_train,            \* row numbers of X_train, or None
    X_val,              \* row numbers of X_val, or None
    X_test,             \* row numbers of X_test, or None
    fit_scores,         \* locals nrmse_train, nrmse_val, nrmse_test, nrmse
    returned,           \* the tuple returned by _evaluate_model
    eerror,             \* exception that left _evaluate_model, or "none"
    spend,              \* the series x of one media channel
    theta,              \* adstock decay, in units of 1 / FracDen
    alpha,              \* Hill exponent
    gamma,              \* Hill inflexion, in units of 1 / FracDen
    tpc,                \* which transformation is applied next
    ridge_adstocked,    \* result of RidgeModelBuilder._geometric_adstock
    fe_adstocked,       \* result of FeatureEngineering._geometric_adstock
    hill_saturated,     \* result of RidgeModelBuilder._hill_transformation
    summaries,          \* roi_mean, roi_total, cpa_mean, cpa_total of the channel
    x_decomp_agg,       \* x_decomp_agg of the candidates handed to the projection
    decomp_spend_dist,  \* decomp_spend_dist of the candidates handed to it
    cores,              \* model_outputs.cores
    futures,            \* the tasks submitted to the ProcessPoolExecutor
    completed,          \* results of the finished tasks, in completion order
    pareto_solutions,   \* solution IDs of the retained population
    plot_data_collect,  \* ParetoResult.plot_data_collect: None or a dict
    solution_id,        \* argument of generate_response_curves
    ax,                 \* whether generate_response_curves is given axes
    vpc,                \* position in optimize / generate_response_curves
    figures,            \* figures created by generate_response_curves
    verror,             \* the error raised, NoError if none
    dt_transform,       \* the prepared data, one row per date
    window_start,       \* mmmdata_spec.window_start, None or a date
    window_end,         \* mmmdata_spec.window_end, None or a date
    wpc,                \* position in _create_rolling_window_data
    dt_modRollWind,     \* the table returned by _create_rolling_window_data
    werror,             \* the error raised, NoError if none
    roll_wind_empty,    \* whether dt_modRollWind has no rows
    media_data,         \* per paid media channel: whether its columns are finite
    fpc,                \* position in _run_models
    channel_i,          \* index of the channel being fitted
    modNLS,             \* modNLS["results"], None where nothing is recorded
    ferror              \* the error raised, NoError if none

svars == <<hyperparameters, dt_hyper_fixed, calibration_input, objective_weights,
           iterations, n_trials, seed, entry, hyper_collect, pc, trial, np_seed,
           np_draws, iter_ng, optimizer, candidate, result, best, evals, calls, trials, error>>

inputs == <<hyperparameters, dt_hyper_fixed, calibration_input, objective_weights,
            iterations, n_trials, seed, entry>>

pinputs == <<pareto_fronts, min_candidates, calibration_constraint, hyper_fixed,
             is_calibrated>>

pvars == <<result_hyp_param, pinputs, ppc, resultHypParamPareto, data,
           pareto_fronts_df, front_i, pareto_data, perror>>

einputs == <<ts_validation, n_rows, train_size>>

evars == <<einputs, epc, X_train, X_val, X_test, fit_scores, returned, eerror>>

tinputs == <<spend, theta, alpha, gamma>>

tvars == <<tinputs, tpc, ridge_adstocked, fe_adstocked, hill_saturated, summaries>>

dvars == <<x_decomp_agg, decomp_spend_dist>>

rvars == <<cores, futures, completed>>

vvars == <<pareto_solutions, plot_data_collect, solution_id, ax, vpc, figures, verror>>

wvars == <<dt_transform, window_start, window_end, wpc, dt_modRollWind, werror>>

fvars == <<roll_wind_empty, media_data, fpc, channel_i, modNLS, ferror>>

vars == <<svars, pvars, evars, tvars, dvars, rvars, vvars, wvars, fvars>>

(***************************************************************************)
(* _hyper_collector and _prepare_hyperparameters: the split into the       *)
(* parameters to optimize (2-element lists) and the fixed ones.            *)
(***************************************************************************)
\* IsBound that accepts a list of any length
IsBound_AnyList(value) == value.isList

\* isinstance(value, list) and len(value) == 2
IsBound(value) == value.isList /\ Len(value.items) = 2

HyperCollector(hp, dtf) ==
    LET upd == {n \in DOMAIN hp : IsBound(hp[n])}
    IN [hyper_list_all |-> hp,
        hyper_bound_list_updated |-> [n \in upd |-> hp[n]],
        hyper_bound_list_fixed |-> [n \in (DOMAIN hp) \ upd |-> hp[n]],
        all_fixed |-> dtf]

PrepareHyperparameters(hp) ==
    [prepared_hyperparameters |-> hp,
     hyper_to_optimize |-> [n \in {m \in DOMAIN hp : IsBound(hp[m])} |-> hp[n]]]

(***************************************************************************)
(* The black-box optimizer: only what the search loop observes of it.      *)
(***************************************************************************)
NoOptimizer == [constructed |-> FALSE, dims |-> {}, budget |-> 0,
                num_ask |-> 0, num_tell |-> 0]

NewOptimizer(bounds, budget) ==
    [constructed |-> TRUE, dims |-> DOMAIN bounds, budget |-> budget,
     num_ask |-> 0, num_tell |-> 0]

\* ng.p.Scalar(lower=bound[0], upper=bound[1]): ask returns a value inside
\* every bound; the model lets it return the all-lower or the all-upper point.
Candidates(bounds) ==
    {[n \in DOMAIN bounds |-> bounds[n].items[1]],
     [n \in DOMAIN bounds |-> bounds[n].items[2]]}

(***************************************************************************)
(* _evaluate_model: the loss from the metrics.                             *)
(***************************************************************************)
\* nrmse = rmse / (max(y) - min(y)) is inf or nan on a constant target;
\* decomp_rssd is the norm of finite coefficients.
NrmseVals == {Fin(0), Fin(1), Inf, NaN}
RssdVals == {Fin(0), Fin(1)}

\* objective weights in units of 1/6: [0.5, 0.5] and [1/3, 1/3, 1/3]
DefaultWeights(calibrated) == IF calibrated THEN <<2, 2, 2>> ELSE <<3, 3>>

\* the weights that multiply a term of the loss: objective_weights[0],
\* objective_weights[1] and, with calibration, objective_weights[2]
AppliedWeights(weights, calibrated) ==
    LET w == IF weights = <<>> THEN DefaultWeights(calibrated) ELSE weights
    IN IF calibrated THEN <<w[1], w[2], w[3]>> ELSE <<w[1], w[2]>>

Loss(weights, calibrated, nrmse, decomp_rssd, mape) ==
    LET w == AppliedWeights(weights, calibrated)
    IN FAdd(FAdd(FScale(w[1], nrmse), FScale(w[2], decomp_rssd)),
            IF calibrated THEN FScale(w[3], mape) ELSE Fin(0))

(***************************************************************************)
(* The best_* locals of _run_nevergrad_optimization.                       *)
(***************************************************************************)
NoBest == [loss |-> Inf, params |-> None, nrmse |-> None, decomp_rssd |-> None,
           mape |-> None, sol_id |-> None, iter_ng |-> None]

\* SolID with trial and iteration exchanged
SolID_IterFirst(t, i) == <<i, t, 1>>

\* f"{trial}_{iter_ng + 1}_1", as the tuple of its three fields
SolID(t, i) == <<t, i, 1>>

WithSolID(params, sid) ==
    [n \in (DOMAIN params) \cup {"solID"} |->
        IF n = "solID" THEN sid ELSE params[n]]

\* UpdateBest with "loss <= best_loss": the last of tied iterations wins
UpdateBest_LastWins(b, r, params, t, i) ==
    IF FLess(r.loss, b.loss) \/ (r.loss = b.loss /\ r.loss.k = "fin")
    THEN [loss |-> r.loss, params |-> WithSolID(params, SolID(t, i + 1)),
          nrmse |-> r.nrmse, decomp_rssd |-> r.decomp_rssd, mape |-> r.mape,
          sol_id |-> SolID(t, i + 1), iter_ng |-> i + 1]
    ELSE b

UpdateBest(b, r, params, t, i) ==
    IF FLess(r.loss, b.loss)
    THEN [loss |-> r.loss, params |-> WithSolID(params, SolID(t, i + 1)),
          nrmse |-> r.nrmse, decomp_rssd |-> r.decomp_rssd, mape |-> r.mape,
          sol_id |-> SolID(t, i + 1), iter_ng |-> i + 1]
    ELSE b

MakeTrial(b, t) ==
    [result_hyp_param |-> b.params, nrmse |-> b.nrmse,
     decomp_rssd |-> b.decomp_rssd, mape |-> b.mape, trial |-> t,
     iter_ng |-> b.iter_ng, iter_par |-> 1, sol_id |-> b.params["solID"]]


(***************************************************************************)
(* Initial state: the arguments of the entry point.                        *)
(***************************************************************************)
WeightChoices == {<<>>, <<6, 0>>}
Entries == {"build_models", "setup_optimizer"}

\* the Pareto selection has not been entered
ParetoIdle ==
    /\ result_hyp_param = <<>>
    /\ pareto_fronts = Auto
    /\ min_candidates = 1
    /\ calibration_constraint = 1
    /\ hyper_fixed = FALSE
    /\ is_calibrated = FALSE
    /\ ppc = "idle"
    /\ resultHypParamPareto = <<>>
    /\ data = <<>>
    /\ pareto_fronts_df = <<>>
    /\ front_i = 1
    /\ pareto_data = None
    /\ perror = NoError

\* no tables are handed to the response-curve projection
DecompIdle ==
    /\ x_decomp_agg = <<>>
    /\ decomp_spend_dist = <<>>

\* no response curves are computed
ResponseIdle ==
    /\ cores = 1
    /\ futures = <<>>
    /\ completed = <<>>

\* no response curves are requested
VisualizerIdle ==
    /\ pareto_solutions = {}
    /\ plot_data_collect = None
    /\ solution_id = <<>>
    /\ ax = FALSE
    /\ vpc = "idle"
    /\ figures = 0
    /\ verror = NoError

\* no rolling window is created
WindowIdle ==
    /\ dt_transform = <<>>
    /\ window_start = None
    /\ window_end = None
    /\ wpc = "idle"
    /\ dt_modRollWind = <<>>
    /\ werror = NoError

\* no spend-exposure model is fitted
FitIdle ==
    /\ roll_wind_empty = FALSE
    /\ media_data = <<>>
    /\ fpc = "idle"
    /\ channel_i = 1
    /\ modNLS = <<>>
    /\ ferror = NoError

\* no transformation is applied
TransformIdle ==
    /\ spend = <<0>>
    /\ theta = 0
    /\ alpha = 1
    /\ gamma = 1
    /\ tpc = "idle"
    /\ ridge_adstocked = None
    /\ fe_adstocked = None
    /\ hill_saturated = None
    /\ summaries = None

\* no single evaluation is followed step by step
EvaluateIdle ==
    /\ ts_validation = FALSE
    /\ n_rows = 1
    /\ train_size = 8
    /\ epc = "idle"
    /\ X_train = None
    /\ X_val = None
    /\ X_test = None
    /\ fit_scores = None
    /\ returned = None
    /\ eerror = NoError

\* the search loop has not been entered
SearchLoopIdle ==
    /\ hyperparameters = [n \in HyperNames |-> ScalarValue(1)]
    /\ dt_hyper_fixed = FALSE
    /\ iterations = 1
    /\ n_trials = 1
    /\ seed = 123
    /\ entry = "build_models"
    /\ hyper_collect = None
    /\ pc = "idle"
    /\ trial = 0
    /\ np_seed = None
    /\ np_draws = 0
    /\ iter_ng = 0
    /\ optimizer = NoOptimizer
    /\ candidate = None
    /\ result = None
    /\ best = NoBest
    /\ evals = <<>>
    /\ calls = <<>>
    /\ trials = <<>>
    /\ error = NoError

\* the search has not been entered
SearchIdle ==
    /\ calibration_input = FALSE
    /\ objective_weights = <<>>
    /\ SearchLoopIdle

SearchInit ==
    /\ hyperparameters \in [HyperNames -> HyperValues]
    /\ dt_hyper_fixed \in BOOLEAN
    /\ calibration_input \in BOOLEAN
    /\ objective_weights \in WeightChoices
    /\ iterations \in 1..MaxIter
    /\ n_trials \in 1..MaxTrials
    /\ iterations * n_trials <= MaxEvals
    /\ seed = 123
    /\ entry \in Entries
    /\ hyper_collect = None
    /\ pc = "start"
    /\ trial = 0
    /\ np_seed = None
    /\ np_draws = 0
    /\ iter_ng = 0
    /\ optimizer = NoOptimizer
    /\ candidate = None
    /\ result = None
    /\ best = NoBest
    /\ evals = <<>>
    /\ calls = <<>>
    /\ trials = <<>>
    /\ error = NoError
    /\ ParetoIdle
    /\ EvaluateIdle
    /\ TransformIdle
    /\ DecompIdle
    /\ ResponseIdle
    /\ VisualizerIdle
    /\ WindowIdle
    /\ FitIdle

(***************************************************************************)
(* RidgeModelBuilder.build_models up to the call of _model_train.          *)
(***************************************************************************)
BuildModels ==
    /\ pc = "start"
    /\ entry = "build_models"
    /\ hyper_collect' = HyperCollector(hyperparameters, dt_hyper_fixed)
    /\ trial' = 1
    /\ pc' = "model_train"
    /\ UNCHANGED <<pvars, evars, tvars, dvars, rvars, vvars, wvars, fvars>>
    /\ UNCHANGED <<inputs, np_seed, np_draws, iter_ng, optimizer, candidate, result, best,
                   evals, calls, trials, error>>

(***************************************************************************)
(* _model_train calls _run_nevergrad_optimization(trial, seed + trial),    *)
(* which seeds numpy and constructs the optimizer of the trial.  The       *)
(* nevergrad constructor is library code: handed an instrumentation with   *)
(* no dimension it either raises its own error or returns an optimizer.    *)
(***************************************************************************)
StartTrial ==
    /\ pc = "model_train"
    /\ trial <= n_trials
    /\ np_seed' = seed + trial
    /\ np_draws' = 0
    /\ best' = NoBest
    /\ iter_ng' = 0
    /\ evals' = <<>>
    /\ calls' = <<>>
    /\ \/ /\ optimizer' = NewOptimizer(hyper_collect.hyper_bound_list_updated,
                                       iterations)
          /\ pc' = "ask"
          /\ error' = error
       \/ /\ DOMAIN hyper_collect.hyper_bound_list_updated = {}
          /\ optimizer' = NoOptimizer
          /\ pc' = "raised"
          /\ error' = Raise("ValueError", "nevergrad")
    /\ UNCHANGED <<pvars, evars, tvars, dvars, rvars, vvars, wvars, fvars>>
    /\ UNCHANGED <<inputs, hyper_collect, trial, candidate, result, trials>>

\* candidate = optimizer.ask(); params = candidate.kwargs
Ask ==
    /\ pc = "ask"
    /\ \E c \in Candidates(hyper_collect.hyper_bound_list_updated) :
          /\ candidate' = c
          /\ calls' = Append(calls, [op |-> "ask", params |-> c, loss |-> None])
    /\ optimizer' = [optimizer EXCEPT !.num_ask = @ + 1]
    /\ pc' = "evaluate"
    /\ UNCHANGED <<pvars, evars, tvars, dvars, rvars, vvars, wvars, fvars>>
    /\ UNCHANGED <<inputs, hyper_collect, trial, np_seed, np_draws, iter_ng, result, best,
                   evals, trials, error>>

\* _evaluate_model returns: the fit and every metric computation succeeded.
\* With calibration input _calculate_mape is called (see EvaluateRaises).
\* _prepare_data adds 1e-8 * np.random.randn(*X.shape) to the design matrix:
\* the matrix that is fitted is determined by params and by the draw, which
\* the seed and the number of earlier draws identify (field noise).  The
\* metrics are a function of params, the data and that draw.
EvaluateReturns ==
    /\ pc = "evaluate"
    /\ ~calibration_input
    /\ Len(objective_weights) \in {0, 2, 3}
    /\ \E nrmse \in NrmseVals, decomp_rssd \in RssdVals :
          LET mape == Fin(0)
              r == [loss |-> Loss(objective_weights, calibration_input,
                                  nrmse, decomp_rssd, mape),
                    nrmse |-> nrmse, decomp_rssd |-> decomp_rssd, mape |-> mape,
                    params |-> candidate, noise |-> <<np_seed, np_draws>>]
          IN /\ \A j \in 1..Len(evals) :
                    (evals[j].params = r.params /\ evals[j].noise = r.noise)
                        => evals[j] = r
             /\ result' = r
             /\ evals' = Append(evals, r)
             /\ calls' = Append(calls, [op |-> "evaluate", params |-> candidate,
                                        loss |-> r.loss])
    /\ np_draws' = np_draws + 1
    /\ pc' = "tell"
    /\ UNCHANGED <<pvars, evars, tvars, dvars, rvars, vvars, wvars, fvars>>
    /\ UNCHANGED <<inputs, hyper_collect, trial, np_seed, iter_ng, optimizer,
                   candidate, best, trials, error>>

\* _evaluate_model raises: Ridge.fit (or train_test_split) rejects the data
\* with a ValueError, or, with calibration input, _calculate_mape reaches
\* self._prepare_features, which the class does not define.  No handler
\* encloses the call in _run_nevergrad_optimization, _model_train or
\* build_models, so the exception leaves build_models.
EvaluateRaises ==
    /\ pc = "evaluate"
    /\ \/ /\ calibration_input
          /\ error' = Raise("AttributeError", "_evaluate_model")
       \/ /\ ~calibration_input
          /\ error' = Raise("ValueError", "_evaluate_model")
    /\ calls' = Append(calls, [op |-> "evaluate", params |-> candidate,
                               loss |-> None])
    /\ np_draws' = np_draws + 1
    /\ pc' = "raised"
    /\ UNCHANGED <<pvars, evars, tvars, dvars, rvars, vvars, wvars, fvars>>
    /\ UNCHANGED <<inputs, hyper_collect, trial, np_seed, iter_ng, optimizer,
                   candidate, result, best, evals, trials>>

\* optimizer.tell(candidate, loss), the best_* update and the loop's next step
Tell ==
    /\ pc = "tell"
    /\ optimizer' = [optimizer EXCEPT !.num_tell = @ + 1]
    /\ calls' = Append(calls, [op |-> "tell", params |-> candidate,
                               loss |-> result.loss])
    /\ best' = UpdateBest(best, result, candidate, trial, iter_ng)
    /\ iter_ng' = iter_ng + 1
    /\ pc' = IF iter_ng + 1 < iterations THEN "ask" ELSE "return"
    /\ UNCHANGED <<pvars, evars, tvars, dvars, rvars, vvars, wvars, fvars>>
    /\ UNCHANGED <<inputs, hyper_collect, trial, np_seed, np_draws, candidate, result,
                   evals, trials, error>>

\* return Trial(...): best_params.get fails when best_params is still None
ReturnTrial ==
    /\ pc = "return"
    /\ IF best.params = None
       THEN /\ pc' = "raised"
            /\ error' = Raise("AttributeError", "_run_nevergrad_optimization")
            /\ UNCHANGED <<trials, trial>>
       ELSE /\ trials' = Append(trials, MakeTrial(best, trial))
            /\ trial' = trial + 1
            /\ pc' = "model_train"
            /\ error' = error
    /\ UNCHANGED <<pvars, evars, tvars, dvars, rvars, vvars, wvars, fvars>>
    /\ UNCHANGED <<inputs, hyper_collect, np_seed, np_draws, iter_ng, optimizer, candidate,
                   result, best, evals, calls>>

\* build_models after _model_train returned: ModelOutputs(...) reads
\* self.convergence_results, an attribute that is never assigned.
BuildOutputs ==
    /\ pc = "model_train"
    /\ trial > n_trials
    /\ pc' = "raised"
    /\ error' = Raise("AttributeError", "build_models")
    /\ UNCHANGED <<pvars, evars, tvars, dvars, rvars, vvars, wvars, fvars>>
    /\ UNCHANGED <<inputs, hyper_collect, trial, np_seed, np_draws, iter_ng, optimizer,
                   candidate, result, best, evals, calls, trials>>

(***************************************************************************)
(* BaseModelExecutor._prepare_hyperparameters followed by                  *)
(* _setup_nevergrad_optimizer.                                             *)
(***************************************************************************)
SetupNevergradOptimizer ==
    /\ pc = "start"
    /\ entry = "setup_optimizer"
    /\ hyper_collect' = PrepareHyperparameters(hyperparameters)
    /\ IF DOMAIN hyper_collect'.hyper_to_optimize = {}
       THEN /\ pc' = "raised"
            /\ error' = Raise("ValueError: No hyperparameters to optimize",
                              "_setup_nevergrad_optimizer")
            /\ optimizer' = optimizer
       ELSE /\ pc' = "returned"
            /\ error' = error
            /\ optimizer' = NewOptimizer(hyper_collect'.hyper_to_optimize, iterations)
    /\ UNCHANGED <<pvars, evars, tvars, dvars, rvars, vvars, wvars, fvars>>
    /\ UNCHANGED <<inputs, trial, np_seed, np_draws, iter_ng, candidate, result, best,
                   evals, calls, trials>>

SearchNext ==
    \/ BuildModels
    \/ StartTrial
    \/ Ask
    \/ EvaluateReturns
    \/ EvaluateRaises
    \/ Tell
    \/ ReturnTrial
    \/ BuildOutputs
    \/ SetupNevergradOptimizer

Init == SearchInit
Next == SearchNext
Spec == Init /\ [][Next]_vars

(***************************************************************************)
(* ParetoOptimizer: tables are sequences of rows.                          *)
(***************************************************************************)
MetricVals == 0..1

Column(table, name) == [j \in 1..Len(table) |-> table[j][name]]

\* pandas Series.quantile(q), linear interpolation, for q = qn / 10.
\* The result is returned multiplied by 10.
Quantile10(values, qn) ==
    LET sorted == SortSeq(values, <)
        h == qn * (Len(values) - 1)
        lo == (h \div 10) + 1
        frac == h % 10
    IN IF frac = 0 THEN 10 * sorted[lo]
       ELSE 10 * sorted[lo] + frac * (sorted[lo + 1] - sorted[lo])

\* the column mape.qt10 of _compute_pareto_fronts
MapeQt10(table, cc, row) ==
    /\ 10 * row.mape <= Quantile10(Column(table, "mape"), cc)
    /\ 10 * row.nrmse <= Quantile10(Column(table, "nrmse"), 9)
    /\ 10 * row.decomp_rssd <= Quantile10(Column(table, "decomp_rssd"), 9)

\* Admissible without the decomp.rssd condition
Admissible_NoRssd(table, cc) ==
    LET Keep(row) ==
            /\ 10 * row.mape <= Quantile10(Column(table, "mape"), cc)
            /\ 10 * row.nrmse <= Quantile10(Column(table, "nrmse"), 9)
    IN SelectSeq(table, Keep)

Admissible(table, cc) ==
    LET Keep(row) == MapeQt10(table, cc, row)
    IN SelectSeq(table, Keep)

\* data.sort_values(by=["x", "y"])
PointLess(p, q) == p.x < q.x \/ (p.x = q.x /\ p.y < q.y)

SortedPoints(table) ==
    SortSeq([j \in 1..Len(table) |->
                [x |-> table[j].nrmse, y |-> table[j].decomp_rssd]], PointLess)

\* IsPareto comparing the x column only
IsPareto_XOnly(row, points) ==
    \A j \in 1..Len(points) : row.x <= points[j].x

\* the lambda of data.apply in _pareto_fronts
IsPareto(row, points) ==
    \A j \in 1..Len(points) : row.y <= points[j].y /\ row.x <= points[j].x

\* the concatenation of a sequence of tables
RECURSIVE Flatten(_)
Flatten(tables) ==
    IF tables = <<>> THEN <<>> ELSE Head(tables) \o Flatten(Tail(tables))

\* pd.merge(resultHypParamPareto, pareto_fronts_df, left_on=["nrmse",
\* "decomp.rssd"], right_on=["x", "y"]): one row per matching pair of rows
ValueMerge(admissible, fronts) ==
    Flatten([j \in 1..Len(admissible) |->
        LET Match(f) == f.x = admissible[j].nrmse /\ f.y = admissible[j].decomp_rssd
            hits == SelectSeq(fronts, Match)
        IN [h \in 1..Len(hits) |->
               [solID |-> admissible[j].solID,
                robynPareto |-> Fin(hits[h].pareto_front),
                iterNG |-> admissible[j].iterNG,
                iterPar |-> admissible[j].iterPar,
                nrmse |-> admissible[j].nrmse]]])

\* sort_values(["iterNG", "iterPar", "nrmse"])[["solID", "robynPareto"]]
MergedLess(a, b) ==
    \/ a.iterNG < b.iterNG
    \/ a.iterNG = b.iterNG /\ a.iterPar < b.iterPar
    \/ a.iterNG = b.iterNG /\ a.iterPar = b.iterPar /\ a.nrmse < b.nrmse

SortMerged(rows) ==
    LET sorted == SortSeq(rows, MergedLess)
    IN [j \in 1..Len(sorted) |->
           [solID |-> sorted[j].solID, robynPareto |-> sorted[j].robynPareto]]

\* the order of the solID strings "<trial>_<iterNG>_<iterPar>"
SolIDLess(a, b) ==
    \/ a.solID[1] < b.solID[1]
    \/ a.solID[1] = b.solID[1] /\ a.solID[2] < b.solID[2]
    \/ a.solID[1] = b.solID[1] /\ a.solID[2] = b.solID[2] /\ a.solID[3] < b.solID[3]

RECURSIVE FirstPerSolID(_, _)
FirstPerSolID(rows, seen) ==
    IF rows = <<>> THEN <<>>
    ELSE IF Head(rows).solID \in seen THEN FirstPerSolID(Tail(rows), seen)
    ELSE <<Head(rows)>> \o FirstPerSolID(Tail(rows), seen \cup {Head(rows).solID})

\* GroupByFirst that keeps every row of a group
GroupByFirst_KeepAll(rows) == SortSeq(rows, SolIDLess)

\* groupby("solID").first().reset_index(): the first row of every solID, the
\* groups in the order of their keys
GroupByFirst(rows) == SortSeq(FirstPerSolID(rows, {}), SolIDLess)

\* resultHypParamPareto after the inner merge, the sort and the groupby
MergeFronts(admissible, fronts) ==
    GroupByFirst(SortMerged(ValueMerge(admissible, fronts)))

\* pd.merge(resultHypParam, resultHypParamPareto, on="solID", how="left"):
\* one row per match, one row with NaN where nothing matches
LeftMergeFronts(table, labelled) ==
    Flatten([j \in 1..Len(table) |->
        LET Match(l) == l.solID = table[j].solID
            hits == SelectSeq(labelled, Match)
        IN IF hits = <<>>
           THEN <<[table[j] EXCEPT !.robynPareto = NaN]>>
           ELSE [h \in 1..Len(hits) |->
                    [table[j] EXCEPT !.robynPareto = hits[h].robynPareto]]])

NotNa(row) == row.robynPareto # NaN
IsIn(row, k) == row.robynPareto.k = "fin" /\ row.robynPareto.v \in 1..k

\* InsufficientCandidates with the "not" of "not is_calibrated" lost
InsufficientCandidates_Calibrated(n_pareto, minc, len, calibrated) ==
    n_pareto <= minc /\ len > 1 /\ calibrated

\* n_pareto <= min_candidates and len(result_hyp_param) > 1 and not is_calibrated
InsufficientCandidates(n_pareto, minc, len, calibrated) ==
    n_pareto <= minc /\ len > 1 /\ ~calibrated

\* auto_pareto: n_cum per front, the cumulative count of distinct solIDs
NCum(table, k) ==
    Cardinality({table[j].solID : j \in {h \in 1..Len(table) : IsIn(table[h], k)}})

FrontNumbers(table) ==
    {table[j].robynPareto.v : j \in {h \in 1..Len(table) : NotNa(table[h])}}

\* auto_pareto[auto_pareto["n_cum"] >= min_candidates]
AutoFronts(table, minc) == {k \in FrontNumbers(table) : NCum(table, k) >= minc}

\* FirstFront that takes the last row of the filtered auto_pareto
FirstFront_Last(fronts) == CHOOSE f \in fronts : \A g \in fronts : g <= f

\* auto_pareto[...].iloc[0]: auto_pareto is sorted by robynPareto
FirstFront(fronts) == CHOOSE f \in fronts : \A g \in fronts : f <= g

\* Retained that keeps every labelled row, whatever its front
Retained_AllLabelled(table, k) ==
    LET Keep(row) == NotNa(row)
    IN SelectSeq(table, Keep)

\* table[table["robynPareto"].isin(pareto_fronts_vec)], the vector being 1..k
Retained(table, k) ==
    LET Keep(row) == IsIn(row, k)
    IN SelectSeq(table, Keep)

\* mmm_data.mmmdata_spec.paid_media_spends
PaidMediaSpends == <<"tv", "radio">>

\* pd.concat of the trials' x_decomp_agg: one row per candidate and channel
AggregatedDecomp(population) ==
    [i \in 1..(Len(population) * Len(PaidMediaSpends)) |->
        LET j == ((i - 1) \div Len(PaidMediaSpends)) + 1
            c == ((i - 1) % Len(PaidMediaSpends)) + 1
        IN [solID |-> population[j].solID, rn |-> PaidMediaSpends[c], coef |-> c]]

\* pd.concat of trial.decomp_spend_dist.assign(trial=trial.trial): one row per
\* candidate and channel; the tables of a fixed-hyperparameter run carry solID
TrialSpendDist(population, fixed) ==
    [i \in 1..(Len(population) * Len(PaidMediaSpends)) |->
        LET j == ((i - 1) \div Len(PaidMediaSpends)) + 1
            c == ((i - 1) % Len(PaidMediaSpends)) + 1
        IN  IF fixed
            THEN [solID |-> population[j].solID, trial |-> population[j].solID[1],
                  iterNG |-> population[j].iterNG, iterPar |-> population[j].iterPar,
                  rn |-> PaidMediaSpends[c], mean_spend |-> c, total_spend |-> 2 * c,
                  xDecompAgg |-> c]
            ELSE [trial |-> population[j].solID[1],
                  iterNG |-> population[j].iterNG, iterPar |-> population[j].iterPar,
                  rn |-> PaidMediaSpends[c], mean_spend |-> c, total_spend |-> 2 * c,
                  xDecompAgg |-> c]]

\* a row of x_decomp_agg or of decomp_spend_dist with the merged column
\* robynPareto
WithRobynPareto(row, front) ==
    IF "coef" \in DOMAIN row
    THEN [solID |-> row.solID, rn |-> row.rn, coef |-> row.coef,
          robynPareto |-> front]
    ELSE [solID |-> row.solID, trial |-> row.trial, iterNG |-> row.iterNG,
          iterPar |-> row.iterPar, rn |-> row.rn, mean_spend |-> row.mean_spend,
          total_spend |-> row.total_spend, xDecompAgg |-> row.xDecompAgg,
          robynPareto |-> front]

\* if not hyper_fixed: decomp_spend_dist["solID"] = trial_iterNG_iterPar
WithSolIDColumn(table, fixed) ==
    IF fixed THEN table
    ELSE [j \in 1..Len(table) |->
             LET row == table[j]
             IN [solID |-> <<row.trial, row.iterNG, row.iterPar>>,
                 trial |-> row.trial, iterNG |-> row.iterNG,
                 iterPar |-> row.iterPar, rn |-> row.rn,
                 mean_spend |-> row.mean_spend, total_spend |-> row.total_spend,
                 xDecompAgg |-> row.xDecompAgg]]

\* pd.merge(table, result_hyp_param[["robynPareto", "solID"]], on="solID",
\* how="left")
LeftMergeRobynPareto(table, population) ==
    Flatten([j \in 1..Len(table) |->
        LET row == table[j]
            Match(r) == r.solID = row.solID
            hits == SelectSeq(population, Match)
        IN IF hits = <<>>
           THEN <<WithRobynPareto(row, NaN)>>
           ELSE [h \in 1..Len(hits) |->
                    WithRobynPareto(row, hits[h].robynPareto)]])

\* OverrideFronts without the override
OverrideFronts_Never(fixed, len, fronts) == fronts

\* if self.model_outputs.hyper_fixed or len(result_hyp_param) == 1:
\*     pareto_fronts = 1
OverrideFronts(fixed, len, fronts) ==
    IF fixed \/ len = 1 THEN Fronts(1) ELSE fronts

(***************************************************************************)
(* ParetoOptimizer.optimize: the aggregated population is the input.  Each *)
(* trial contributes one row with a distinct solID; the trials carry their *)
(* decomp_spend_dist tables.                                               *)
(***************************************************************************)
ParetoInit ==
    /\ SearchIdle
    /\ EvaluateIdle
    /\ TransformIdle
    /\ ResponseIdle
    /\ VisualizerIdle
    /\ WindowIdle
    /\ FitIdle
    /\ hyper_fixed \in BOOLEAN
    /\ is_calibrated \in BOOLEAN
    /\ pareto_fronts \in {Auto} \cup {Fronts(n) : n \in 1..MaxFronts}
    \* min_candidates is read under "auto" only
    /\ min_candidates \in (IF pareto_fronts.auto THEN 1..MaxMinCandidates ELSE {1})
    /\ calibration_constraint \in (IF is_calibrated THEN {1, 5} ELSE {1})
    /\ \E n \in 1..MaxPop :
          \E nrmse \in [1..n -> MetricVals], rssd \in [1..n -> MetricVals],
             mape \in [1..n -> (IF is_calibrated THEN MetricVals ELSE {0})] :
             result_hyp_param =
                 [j \in 1..n |->
                     [solID |-> SolID(j, 1), nrmse |-> nrmse[j],
                      decomp_rssd |-> rssd[j], mape |-> mape[j],
                      iterNG |-> 1, iterPar |-> 1, robynPareto |-> NaN]]
    /\ DecompIdle
    /\ ppc = "compute_pareto_fronts"
    /\ resultHypParamPareto = <<>>
    /\ data = <<>>
    /\ pareto_fronts_df = <<>>
    /\ front_i = 1
    /\ pareto_data = None
    /\ perror = NoError

\* _compute_pareto_fronts, hyper_fixed: every candidate gets robynPareto = 1
AssignFrontOne ==
    /\ ppc = "compute_pareto_fronts"
    /\ hyper_fixed
    /\ result_hyp_param' =
           [j \in 1..Len(result_hyp_param) |->
               [result_hyp_param[j] EXCEPT !.robynPareto = Fin(1)]]
    /\ ppc' = "prepare_pareto_data"
    /\ UNCHANGED <<pinputs, resultHypParamPareto, data, pareto_fronts_df, front_i,
                   pareto_data, perror>>
    /\ UNCHANGED <<svars, evars, tvars, dvars, rvars, vvars, wvars, fvars>>

\* _compute_pareto_fronts, not hyper_fixed, up to the call of _pareto_fronts,
\* and _pareto_fronts up to its loop
FilterAdmissible ==
    /\ ppc = "compute_pareto_fronts"
    /\ ~hyper_fixed
    /\ resultHypParamPareto' = Admissible(result_hyp_param, calibration_constraint)
    /\ data' = SortedPoints(resultHypParamPareto')
    /\ pareto_fronts_df' = <<>>
    /\ front_i' = 1
    /\ ppc' = "pareto_fronts_loop"
    /\ UNCHANGED <<result_hyp_param, pinputs, pareto_data, perror>>
    /\ UNCHANGED <<svars, evars, tvars, dvars, rvars, vvars, wvars, fvars>>

\* one pass of the while loop of _pareto_fronts.  In "auto" mode the counter
\* is unbounded in the code; the model follows it up to MaxPop + 1.
ParetoFrontsPass ==
    /\ ppc = "pareto_fronts_loop"
    /\ data # <<>>
    /\ pareto_fronts.auto \/ front_i <= pareto_fronts.n
    /\ front_i <= MaxPop + 1
    /\ LET Is(row) == IsPareto(row, data)
           IsNot(row) == ~IsPareto(row, data)
           pareto_front == SelectSeq(data, Is)
       IN /\ pareto_fronts_df' = pareto_fronts_df \o
                 [j \in 1..Len(pareto_front) |->
                     [x |-> pareto_front[j].x, y |-> pareto_front[j].y,
                      pareto_front |-> front_i]]
          /\ data' = SelectSeq(data, IsNot)
    /\ front_i' = front_i + 1
    /\ UNCHANGED <<result_hyp_param, pinputs, ppc, resultHypParamPareto,
                   pareto_data, perror>>
    /\ UNCHANGED <<svars, evars, tvars, dvars, rvars, vvars, wvars, fvars>>

\* the loop of _pareto_fronts exits; _compute_pareto_fronts merges the front
\* numbers into resultHypParam and returns it
ParetoFrontsReturn ==
    /\ ppc = "pareto_fronts_loop"
    /\ ~(data # <<>> /\ (pareto_fronts.auto \/ front_i <= pareto_fronts.n))
    /\ result_hyp_param' =
           LeftMergeFronts(result_hyp_param,
                           MergeFronts(resultHypParamPareto, pareto_fronts_df))
    /\ ppc' = "prepare_pareto_data"
    /\ UNCHANGED <<pinputs, resultHypParamPareto, data, pareto_fronts_df, front_i,
                   pareto_data, perror>>
    /\ UNCHANGED <<svars, evars, tvars, dvars, rvars, vvars, wvars, fvars>>

\* prepare_pareto_data.  The tables of the trials are read here: x_decomp_agg
\* and decomp_spend_dist hold one row per candidate of the population and
\* channel.  pareto_fronts of the ParetoData stands for the vector
\* 1..pareto_fronts.
PrepareParetoData ==
    /\ ppc = "prepare_pareto_data"
    /\ LET pf1 == OverrideFronts(hyper_fixed, Len(result_hyp_param), pareto_fronts)
           NotNaRow(row) == NotNa(row)
           n_pareto == Len(SelectSeq(result_hyp_param, NotNaRow))
           auto_pareto == AutoFronts(result_hyp_param, min_candidates)
       IN IF pf1.auto /\ InsufficientCandidates(n_pareto, min_candidates,
                                                Len(result_hyp_param), is_calibrated)
          THEN /\ perror' = Raise("ValueError: Less than min_candidates candidates",
                                  "prepare_pareto_data")
               /\ ppc' = "raised"
               /\ pareto_data' = pareto_data
          ELSE IF pf1.auto /\ auto_pareto = {}
          THEN /\ perror' = Raise("IndexError", "prepare_pareto_data")
               /\ ppc' = "raised"
               /\ pareto_data' = pareto_data
          ELSE LET k == IF pf1.auto
                        THEN FirstFront(auto_pareto)
                        ELSE pf1.n
                   x_merged ==
                       LeftMergeRobynPareto(AggregatedDecomp(result_hyp_param),
                                            result_hyp_param)
                   spend_merged ==
                       LeftMergeRobynPareto(
                           WithSolIDColumn(
                               TrialSpendDist(result_hyp_param, hyper_fixed),
                               hyper_fixed),
                           result_hyp_param)
               IN /\ pareto_data' =
                         [decomp_spend_dist |-> Retained(spend_merged, k),
                          result_hyp_param |-> Retained(result_hyp_param, k),
                          x_decomp_agg |-> Retained(x_merged, k),
                          pareto_fronts |-> k]
                  /\ ppc' = "response_curves"
                  /\ perror' = perror
    /\ UNCHANGED <<result_hyp_param, pinputs, resultHypParamPareto, data,
                   pareto_fronts_df, front_i>>
    /\ UNCHANGED <<svars, evars, tvars, dvars, rvars, vvars, wvars, fvars>>

ParetoNext ==
    \/ AssignFrontOne
    \/ FilterAdmissible
    \/ ParetoFrontsPass
    \/ ParetoFrontsReturn
    \/ PrepareParetoData

ParetoSpec == ParetoInit /\ [][ParetoNext]_vars

(***************************************************************************)
(* RidgeModelBuilder._evaluate_model, one call followed step by step.      *)
(* Rows are numbered 1..n_rows in time order; a partition is the sequence  *)
(* of its row numbers.                                                     *)
(***************************************************************************)
Rows(n) == [j \in 1..n |-> j]

Floor10(a) == a \div 10
Ceil10(a) == (a + 9) \div 10

\* TrainTestSplit that takes the test rows from the head of the array
TrainTestSplit_FromHead(arr, train10, test10) ==
    LET n == Len(arr)
        n_train == IF train10 # 0 THEN Floor10(train10 * n)
                   ELSE n - Ceil10(test10 * n)
        n_test == IF test10 # 0 THEN Ceil10(test10 * n) ELSE n - n_train
    IN IF n_train = 0
       THEN [ok |-> FALSE, train |-> <<>>, test |-> <<>>]
       ELSE [ok |-> TRUE, train |-> SubSeq(arr, 1, n_train),
             test |-> SubSeq(arr, 1, n_test)]

\* sklearn.model_selection.train_test_split(arr, train_size=, test_size=,
\* shuffle=False); sizes are fractions in tenths, 0 stands for None.
\* n_test = ceil(test_size * n), n_train = floor(train_size * n), the size
\* left as None is the complement; an empty train set is a ValueError.
TrainTestSplit(arr, train10, test10) ==
    LET n == Len(arr)
        n_train == IF train10 # 0 THEN Floor10(train10 * n)
                   ELSE n - Ceil10(test10 * n)
        n_test == IF test10 # 0 THEN Ceil10(test10 * n) ELSE n - n_train
    IN IF n_train = 0
       THEN [ok |-> FALSE, train |-> <<>>, test |-> <<>>]
       ELSE [ok |-> TRUE, train |-> SubSeq(arr, 1, n_train),
             test |-> SubSeq(arr, n_train + 1, n_train + n_test)]

\* rmse / (y.max() - y.min()) over the rows of one partition: the range of
\* a single row is 0, so the quotient is inf or nan
PartitionNrmse(part) == IF Len(part) = 1 THEN {Inf, NaN} ELSE NrmseVals

\* SelectNrmse always taking the training NRMSE
SelectNrmse_Train(validate, nrmse_train, nrmse_val) == nrmse_train

\* nrmse = nrmse_val if ts_validation else nrmse_train
SelectNrmse(validate, nrmse_train, nrmse_val) ==
    IF validate THEN nrmse_val ELSE nrmse_train

TrainSizes == {5, 8}
EvaluateWeightChoices == {<<>>, <<6, 0>>, <<6, 6>>, <<2, 2, 2>>}

EvaluateInit ==
    /\ SearchLoopIdle
    /\ ParetoIdle
    /\ TransformIdle
    /\ DecompIdle
    /\ ResponseIdle
    /\ VisualizerIdle
    /\ WindowIdle
    /\ FitIdle
    /\ calibration_input \in BOOLEAN
    /\ objective_weights \in EvaluateWeightChoices
    /\ ts_validation \in BOOLEAN
    /\ n_rows \in 1..MaxRows
    /\ train_size \in TrainSizes
    /\ epc = "split"
    /\ X_train = None
    /\ X_val = None
    /\ X_test = None
    /\ fit_scores = None
    /\ returned = None
    /\ eerror = NoError

\* lines 597-604: the chronological split
SplitData ==
    /\ epc = "split"
    /\ IF ts_validation
       THEN LET first == TrainTestSplit(Rows(n_rows), train_size, 0)
                second == TrainTestSplit(first.test, 0, 5)
            IN IF first.ok /\ second.ok
               THEN /\ X_train' = first.train
                    /\ X_val' = second.train
                    /\ X_test' = second.test
                    /\ epc' = "fit"
                    /\ eerror' = eerror
               ELSE /\ epc' = "raised"
                    /\ eerror' = Raise("ValueError", "train_test_split")
                    /\ UNCHANGED <<X_train, X_val, X_test>>
       ELSE /\ X_train' = Rows(n_rows)
            /\ X_val' = None
            /\ X_test' = None
            /\ epc' = "fit"
            /\ eerror' = eerror
    /\ UNCHANGED <<einputs, fit_scores, returned>>
    /\ UNCHANGED <<svars, pvars, tvars, dvars, rvars, vvars, wvars, fvars>>

\* lines 606-626: the fit and the NRMSE of each partition
FitAndScore ==
    /\ epc = "fit"
    /\ \E nrmse_train \in PartitionNrmse(X_train) :
          IF ts_validation
          THEN \E nrmse_val \in PartitionNrmse(X_val),
                  nrmse_test \in PartitionNrmse(X_test) :
                  fit_scores' =
                      [nrmse_train |-> nrmse_train, nrmse_val |-> nrmse_val,
                       nrmse_test |-> nrmse_test,
                       nrmse |-> SelectNrmse(ts_validation, nrmse_train, nrmse_val)]
          ELSE fit_scores' =
                   [nrmse_train |-> nrmse_train, nrmse_val |-> None,
                    nrmse_test |-> None,
                    nrmse |-> SelectNrmse(ts_validation, nrmse_train, None)]
    /\ epc' = "mape"
    /\ UNCHANGED <<einputs, X_train, X_val, X_test, returned, eerror>>
    /\ UNCHANGED <<svars, pvars, tvars, dvars, rvars, vvars, wvars, fvars>>

\* line 608: Ridge.fit rejects the data
FitRaises ==
    /\ epc = "fit"
    /\ epc' = "raised"
    /\ eerror' = Raise("ValueError", "Ridge.fit")
    /\ UNCHANGED <<einputs, X_train, X_val, X_test, fit_scores, returned>>
    /\ UNCHANGED <<svars, pvars, tvars, dvars, rvars, vvars, wvars, fvars>>

\* line 630 with calibration input: _calculate_mape reaches
\* self._prepare_features, which the class does not define
CalculateMapeRaises ==
    /\ epc = "mape"
    /\ calibration_input
    /\ epc' = "raised"
    /\ eerror' = Raise("AttributeError", "_calculate_mape")
    /\ UNCHANGED <<einputs, X_train, X_val, X_test, fit_scores, returned>>
    /\ UNCHANGED <<svars, pvars, tvars, dvars, rvars, vvars, wvars, fvars>>

\* lines 628-678 without calibration input: decomp_rssd, mape = 0.0, the
\* weights and the loss
ComputeLoss ==
    /\ epc = "mape"
    /\ ~calibration_input
    /\ \E decomp_rssd \in RssdVals :
          returned' =
              [loss |-> Loss(objective_weights, calibration_input,
                             fit_scores.nrmse, decomp_rssd, Fin(0)),
               nrmse |-> fit_scores.nrmse, decomp_rssd |-> decomp_rssd,
               mape |-> Fin(0),
               weights |-> AppliedWeights(objective_weights, calibration_input)]
    /\ epc' = "returned"
    /\ UNCHANGED <<einputs, X_train, X_val, X_test, fit_scores, eerror>>
    /\ UNCHANGED <<svars, pvars, tvars, dvars, rvars, vvars, wvars, fvars>>

EvaluateNext ==
    \/ SplitData
    \/ FitAndScore
    \/ FitRaises
    \/ CalculateMapeRaises
    \/ ComputeLoss

EvaluateSpec == EvaluateInit /\ [][EvaluateNext]_vars

(***************************************************************************)
(* The media transformations.  theta and gamma are multiples of            *)
(* 1 / FracDen; an adstocked series is held multiplied by Scale, which     *)
(* keeps every step of the recurrences an exact integer.  Quotients are    *)
(* reduced fractions v / d, or inf, or nan.                                *)
(***************************************************************************)
Scale == FracDen ^ (MaxLen - 1)

RECURSIVE GCD(_, _)
GCD(a, b) == IF b = 0 THEN a ELSE GCD(b, a % b)

\* a / b in floating point, for a >= 0 and b >= 0: 0 / 0 is nan, a / 0 is inf
Ratio(a, b) ==
    IF b = 0 THEN (IF a = 0 THEN NaN ELSE Inf)
    ELSE [k |-> "fin", v |-> a \div GCD(a, b), d |-> b \div GCD(a, b)]

SeriesMin(s) == CHOOSE m \in {s[t] : t \in DOMAIN s} : \A t \in DOMAIN s : m <= s[t]
SeriesMax(s) == CHOOSE m \in {s[t] : t \in DOMAIN s} : \A t \in DOMAIN s : m >= s[t]

\* for i in range(1, len(x)): y.iloc[i] += theta * y.iloc[i - 1]
RECURSIVE AdstockLoop(_, _, _)
AdstockLoop(y, i, th) ==
    IF i > Len(y) THEN y
    ELSE AdstockLoop([y EXCEPT ![i] = @ + (th * y[i - 1]) \div FracDen], i + 1, th)

\* RidgeModelBuilder._geometric_adstock
RidgeGeometricAdstock(s, th) ==
    AdstockLoop([t \in DOMAIN s |-> Scale * s[t]], 2, th)

\* pandas ewm(alpha=a, adjust=False).mean(), a = 1 - theta:
\* y[0] = x[0], y[t] = (1 - a) * y[t-1] + a * x[t]
RECURSIVE EwmMean(_, _, _)
EwmMean(s, t, th) ==
    IF t = 1 THEN Scale * s[1]
    ELSE (th * EwmMean(s, t - 1, th) + (FracDen - th) * Scale * s[t]) \div FracDen

\* FeatureEngineering._geometric_adstock
FeGeometricAdstock(s, th) == [t \in DOMAIN s |-> EwmMean(s, t, th)]

\* RidgeModelBuilder._hill_transformation:
\* x_scaled = (x - x.min()) / (x.max() - x.min())
\* x_scaled**alpha / (x_scaled**alpha + gamma**alpha)
HillTransformation(s, a, g) ==
    [t \in DOMAIN s |->
        LET x_scaled == Ratio(s[t] - SeriesMin(s), SeriesMax(s) - SeriesMin(s))
        IN IF x_scaled.k # "fin" THEN NaN
           ELSE Ratio((x_scaled.v * FracDen) ^ a,
                      (x_scaled.v * FracDen) ^ a + (g * x_scaled.d) ^ a)]

\* the ROI / CPA columns of _compute_response_curves for one row of
\* decomp_spend_dist; mean_spend is total_spend / len
ResponseSummaries(total_spend, len, xDecompAgg, mean_response) ==
    [roi_mean |-> Ratio(mean_response * len, total_spend),
     roi_total |-> Ratio(xDecompAgg, total_spend),
     cpa_mean |-> Ratio(total_spend, mean_response * len),
     cpa_total |-> Ratio(total_spend, xDecompAgg)]

RECURSIVE SeriesSum(_)
SeriesSum(s) == IF s = <<>> THEN 0 ELSE Head(s) + SeriesSum(Tail(s))

Series == UNION {[1..n -> 0..MaxSpend] : n \in 1..MaxLen}

TransformInit ==
    /\ SearchIdle
    /\ ParetoIdle
    /\ EvaluateIdle
    /\ DecompIdle
    /\ ResponseIdle
    /\ VisualizerIdle
    /\ WindowIdle
    /\ FitIdle
    /\ spend \in Series
    /\ theta \in 0..(FracDen - 1)
    /\ alpha \in 1..MaxAlpha
    /\ gamma \in 1..FracDen
    /\ tpc = "adstock"
    /\ ridge_adstocked = None
    /\ fe_adstocked = None
    /\ hill_saturated = None
    /\ summaries = None

\* _prepare_data line 482
ApplyRidgeAdstock ==
    /\ tpc = "adstock"
    /\ ridge_adstocked' = RidgeGeometricAdstock(spend, theta)
    /\ tpc' = "hill"
    /\ UNCHANGED <<tinputs, fe_adstocked, hill_saturated, summaries>>
    /\ UNCHANGED <<svars, pvars, evars, dvars, rvars, vvars, wvars, fvars>>

\* _prepare_data line 484: the saturation of the adstocked series
ApplyHill ==
    /\ tpc = "hill"
    /\ hill_saturated' = HillTransformation(ridge_adstocked, alpha, gamma)
    /\ tpc' = "fe_adstock"
    /\ UNCHANGED <<tinputs, ridge_adstocked, fe_adstocked, summaries>>
    /\ UNCHANGED <<svars, pvars, evars, dvars, rvars, vvars, wvars, fvars>>

\* FeatureEngineering._apply_adstock for the same series and theta
ApplyFeAdstock ==
    /\ tpc = "fe_adstock"
    /\ fe_adstocked' = FeGeometricAdstock(spend, theta)
    /\ tpc' = "summaries"
    /\ UNCHANGED <<tinputs, ridge_adstocked, hill_saturated, summaries>>
    /\ UNCHANGED <<svars, pvars, evars, dvars, rvars, vvars, wvars, fvars>>

\* _compute_response_curves lines 562-578 for the channel's row; the
\* decomposed effect and the mean response come from the fitted model
ComputeSummaries ==
    /\ tpc = "summaries"
    /\ \E xDecompAgg \in 0..1, mean_response \in 0..1 :
          summaries' = ResponseSummaries(SeriesSum(spend), Len(spend),
                                         xDecompAgg, mean_response)
    /\ tpc' = "done"
    /\ UNCHANGED <<tinputs, ridge_adstocked, fe_adstocked, hill_saturated>>
    /\ UNCHANGED <<svars, pvars, evars, dvars, rvars, vvars, wvars, fvars>>

TransformNext ==
    \/ ApplyRidgeAdstock
    \/ ApplyHill
    \/ ApplyFeAdstock
    \/ ComputeSummaries

TransformSpec == TransformInit /\ [][TransformNext]_vars

(***************************************************************************)
(* Properties of the search loop.                                          *)
(***************************************************************************)
(* ParetoOptimizer._compute_response_curves: the ParetoData returned by    *)
(* prepare_pareto_data is the input.  ResponseCurveCalculator,             *)
(* HillCalculator and ParetoUtils are not part of the sources; RunDtResp   *)
(* keeps what run_dt_resp reads and returns, the response being a fixed    *)
(* function of the row, of its coefficient and of its solID.               *)
(***************************************************************************)
MeanSpends == 0..1

\* the (solID, rn) pairs of a population
ResponseKeys(population) ==
    {<<population[j].solID, PaidMediaSpends[c]>> :
        j \in 1..Len(population), c \in 1..Len(PaidMediaSpends)}

\* the row of x_decomp_agg read by run_dt_resp (dt_coef)
DtCoef(row, paretoData) ==
    LET Match(x) == x.solID = row.solID /\ x.rn = row.rn
    IN SelectSeq(paretoData.x_decomp_agg, Match)

\* run_dt_resp: the pd.Series returned for one row of decomp_spend_dist
RunDtResp(row, paretoData) ==
    LET coef == DtCoef(row, paretoData)[1].coef
    IN [mean_response |-> Fin(coef * row.mean_spend + row.solID[1]),
        mean_spend_adstocked |-> Fin(row.mean_spend + coef),
        mean_carryover |-> Fin(coef),
        rn |-> row.rn,
        solID |-> row.solID]

\* a row of the left table with the columns of a row of resp_collect
WithResponse(row, resp) ==
    [f \in DOMAIN row \cup {"mean_response", "mean_spend_adstocked", "mean_carryover"} |->
        IF f \in DOMAIN row THEN row[f] ELSE resp[f]]

NoResponse ==
    [mean_response |-> NaN, mean_spend_adstocked |-> NaN, mean_carryover |-> NaN]

\* MergeResponses that pairs the rows by position
MergeResponses_ByPosition(table, resp_collect) ==
    [j \in 1..Len(table) |-> WithResponse(table[j], resp_collect[j])]

\* pd.merge(pareto_data.decomp_spend_dist, resp_collect, on=["solID", "rn"],
\* how="left")
MergeResponses(table, resp_collect) ==
    Flatten([j \in 1..Len(table) |->
        LET Match(r) == r.solID = table[j].solID /\ r.rn = table[j].rn
            hits == SelectSeq(resp_collect, Match)
        IN IF hits = <<>>
           THEN <<WithResponse(table[j], NoResponse)>>
           ELSE [h \in 1..Len(hits) |-> WithResponse(table[j], hits[h])]])

\* a / b for a float a >= 0 and an integer b >= 0
FRatio(a, b) == IF a.k = "fin" THEN Ratio(a.v, b) ELSE NaN

\* b / a for a float a >= 0 and an integer b >= 0
FInverse(b, a) == IF a.k = "fin" THEN Ratio(b, a.v) ELSE NaN

\* roi_mean, roi_total, cpa_mean and cpa_total of every row
WithRoiCpa(table) ==
    [j \in 1..Len(table) |->
        [f \in DOMAIN table[j] \cup {"roi_mean", "roi_total", "cpa_mean", "cpa_total"} |->
            IF f = "roi_mean" THEN FRatio(table[j].mean_response, table[j].mean_spend)
            ELSE IF f = "roi_total" THEN Ratio(table[j].xDecompAgg, table[j].total_spend)
            ELSE IF f = "cpa_mean" THEN FInverse(table[j].mean_spend, table[j].mean_response)
            ELSE IF f = "cpa_total" THEN Ratio(table[j].total_spend, table[j].xDecompAgg)
            ELSE table[j][f]]]

\* the columns of decomp_spend_dist merged into x_decomp_agg
SummaryColumns ==
    {"total_spend", "mean_spend", "mean_spend_adstocked", "mean_carryover",
     "mean_response", "roi_mean", "roi_total", "cpa_total"}

\* pd.merge(pareto_data.x_decomp_agg, pareto_data.decomp_spend_dist[[...]],
\* on=["solID", "rn"], how="left")
MergeSummaries(decomp, spend_dist) ==
    Flatten([j \in 1..Len(decomp) |->
        LET Match(r) == r.solID = decomp[j].solID /\ r.rn = decomp[j].rn
            hits == SelectSeq(spend_dist, Match)
        IN IF hits = <<>>
           THEN <<[f \in DOMAIN decomp[j] \cup SummaryColumns |->
                     IF f \in DOMAIN decomp[j] THEN decomp[j][f] ELSE NaN]>>
           ELSE [h \in 1..Len(hits) |->
                    [f \in DOMAIN decomp[j] \cup SummaryColumns |->
                        IF f \in DOMAIN decomp[j] THEN decomp[j][f] ELSE hits[h][f]]]])

\* _compute_response_curves from the merge on: the ParetoData it returns
MergedParetoData(paretoData, resp_collect) ==
    LET spend_dist ==
            WithRoiCpa(MergeResponses(paretoData.decomp_spend_dist, resp_collect))
    IN [paretoData EXCEPT !.decomp_spend_dist = spend_dist,
                          !.x_decomp_agg = MergeSummaries(@, spend_dist)]

\* a population of n candidates, all of front 1
FrontOnePopulation(n) ==
    [j \in 1..n |->
        [solID |-> SolID(j, 1), nrmse |-> 0, decomp_rssd |-> 0, mape |-> 0,
         iterNG |-> 1, iterPar |-> 1, robynPareto |-> Fin(1)]]

\* the tables whose rows have pairwise different (solID, rn)
SpendDistTables(population) ==
    {t \in UNION {[1..n -> ResponseKeys(population) \X MeanSpends] : n \in 1..MaxTasks} :
        \A a, b \in DOMAIN t : t[a][1] = t[b][1] => a = b}

SpendDistRow(key, mean_spend) ==
    [solID |-> key[1], trial |-> key[1][1], iterNG |-> key[1][2],
     iterPar |-> key[1][3], rn |-> key[2], mean_spend |-> mean_spend,
     total_spend |-> 2 * mean_spend, xDecompAgg |-> 1]

ResponseInit ==
    /\ SearchIdle
    /\ EvaluateIdle
    /\ TransformIdle
    /\ VisualizerIdle
    /\ WindowIdle
    /\ FitIdle
    /\ pareto_fronts = Auto
    /\ min_candidates = 1
    /\ calibration_constraint = 1
    /\ hyper_fixed = FALSE
    /\ is_calibrated = FALSE
    /\ resultHypParamPareto = <<>>
    /\ data = <<>>
    /\ pareto_fronts_df = <<>>
    /\ front_i = 1
    /\ perror = NoError
    /\ \E n \in 1..2 : result_hyp_param = FrontOnePopulation(n)
    /\ x_decomp_agg = AggregatedDecomp(result_hyp_param)
    /\ \E t \in SpendDistTables(result_hyp_param) :
          decomp_spend_dist = [j \in DOMAIN t |-> SpendDistRow(t[j][1], t[j][2])]
    /\ pareto_data =
           [decomp_spend_dist |->
                LeftMergeRobynPareto(decomp_spend_dist, result_hyp_param),
            result_hyp_param |-> result_hyp_param,
            x_decomp_agg |-> LeftMergeRobynPareto(x_decomp_agg, result_hyp_param),
            pareto_fronts |-> 1]
    /\ ppc = "response_curves"
    /\ cores \in 1..2
    /\ futures = <<>>
    /\ completed = <<>>

\* cores > 1: one task per row is submitted to the ProcessPoolExecutor, each
\* with its row and the ParetoData
SubmitTasks ==
    /\ ppc = "response_curves"
    /\ cores > 1
    /\ futures' = [j \in 1..Len(pareto_data.decomp_spend_dist) |->
                      [row |-> pareto_data.decomp_spend_dist[j],
                       paretoData |-> pareto_data,
                       done |-> FALSE]]
    /\ completed' = <<>>
    /\ ppc' = "as_completed"
    /\ UNCHANGED <<result_hyp_param, pinputs, resultHypParamPareto, data,
                   pareto_fronts_df, front_i, pareto_data, perror, cores>>
    /\ UNCHANGED <<svars, evars, tvars, dvars, vvars, wvars, fvars>>

\* a worker finishes run_dt_resp for its row; as_completed yields the futures
\* in the order in which they finish
TaskCompletes ==
    /\ ppc = "as_completed"
    /\ \E j \in 1..Len(futures) :
          /\ ~futures[j].done
          /\ futures' = [futures EXCEPT ![j].done = TRUE]
          /\ completed' = Append(completed,
                                 RunDtResp(futures[j].row, futures[j].paretoData))
    /\ UNCHANGED <<result_hyp_param, pinputs, ppc, resultHypParamPareto, data,
                   pareto_fronts_df, front_i, pareto_data, perror, cores>>
    /\ UNCHANGED <<svars, evars, tvars, dvars, vvars, wvars, fvars>>

\* every future has been yielded: resp_collect is built and merged
MergeCollected ==
    /\ ppc = "as_completed"
    /\ \A j \in 1..Len(futures) : futures[j].done
    /\ pareto_data' = MergedParetoData(pareto_data, completed)
    /\ ppc' = "plot_data"
    /\ UNCHANGED <<result_hyp_param, pinputs, resultHypParamPareto, data,
                   pareto_fronts_df, front_i, perror, rvars>>
    /\ UNCHANGED <<svars, evars, tvars, dvars, vvars, wvars, fvars>>

\* cores <= 1: decomp_spend_dist.apply(run_dt_resp_partial, axis=1) and the
\* merge
ApplySequential ==
    /\ ppc = "response_curves"
    /\ ~(cores > 1)
    /\ LET resp_collect ==
               [j \in 1..Len(pareto_data.decomp_spend_dist) |->
                   RunDtResp(pareto_data.decomp_spend_dist[j], pareto_data)]
       IN pareto_data' = MergedParetoData(pareto_data, resp_collect)
    /\ ppc' = "plot_data"
    /\ UNCHANGED <<result_hyp_param, pinputs, resultHypParamPareto, data,
                   pareto_fronts_df, front_i, perror, rvars>>
    /\ UNCHANGED <<svars, evars, tvars, dvars, vvars, wvars, fvars>>

ResponseNext ==
    \/ SubmitTasks
    \/ TaskCompletes
    \/ MergeCollected
    \/ ApplySequential

ResponseSpec == ResponseInit /\ [][ResponseNext]_vars

(***************************************************************************)
(* ResponseVisualizer.generate_response_curves, called on a ParetoResult.  *)
(* plot_data_collect is None, as in the ParetoResult that optimize builds, *)
(* or a dict keyed by the solution IDs of the retained population.         *)
(***************************************************************************)
SolutionIDs == {SolID(t, 1) : t \in 1..MaxPop}

\* a dict with the given keys
Dict(keys) == [keys |-> keys]

VisualizerInit ==
    /\ SearchIdle
    /\ ParetoIdle
    /\ EvaluateIdle
    /\ TransformIdle
    /\ DecompIdle
    /\ ResponseIdle
    /\ WindowIdle
    /\ FitIdle
    /\ pareto_solutions \in SUBSET SolutionIDs
    /\ solution_id \in SolutionIDs
    /\ ax \in BOOLEAN
    /\ \/ /\ vpc = "optimize"
          /\ plot_data_collect = None
       \/ /\ vpc = "generate_response_curves"
          /\ plot_data_collect \in {None, Dict(pareto_solutions)}
    /\ figures = 0
    /\ verror = NoError

\* optimize: _generate_plot_data reads the undefined name InputCollect
GeneratePlotData ==
    /\ vpc = "optimize"
    /\ verror' = Raise("NameError", "_generate_plot_data")
    /\ vpc' = "raised"
    /\ UNCHANGED <<pareto_solutions, plot_data_collect, solution_id, ax, figures>>
    /\ UNCHANGED <<svars, pvars, evars, tvars, dvars, rvars, wvars, fvars>>

\* if solution_id not in self.pareto_result.plot_data_collect: raise ValueError
CheckSolutionID ==
    /\ vpc = "generate_response_curves"
    /\ IF plot_data_collect = None
       THEN /\ verror' = Raise("TypeError", "generate_response_curves")
            /\ vpc' = "raised"
       ELSE IF solution_id \notin plot_data_collect.keys
       THEN /\ verror' = Raise("ValueError: Invalid solution ID",
                               "generate_response_curves")
            /\ vpc' = "raised"
       ELSE /\ verror' = verror
            /\ vpc' = "plot"
    /\ UNCHANGED <<pareto_solutions, plot_data_collect, solution_id, ax, figures>>
    /\ UNCHANGED <<svars, pvars, evars, tvars, dvars, rvars, wvars, fvars>>

\* the try block: a figure is created unless axes were given
PlotCurves ==
    /\ vpc = "plot"
    /\ figures' = IF ax THEN figures ELSE figures + 1
    /\ vpc' = "returned"
    /\ UNCHANGED <<pareto_solutions, plot_data_collect, solution_id, ax, verror>>
    /\ UNCHANGED <<svars, pvars, evars, tvars, dvars, rvars, wvars, fvars>>

VisualizerNext ==
    \/ GeneratePlotData
    \/ CheckSolutionID
    \/ PlotCurves

VisualizerSpec == VisualizerInit /\ [][VisualizerNext]_vars

(***************************************************************************)
(* FeatureEngineering._create_rolling_window_data.  The ds column holds    *)
(* "%Y-%m-%d" strings, whose order is the order of the dates; dates are    *)
(* numbered.  The window bounds are None or a date in the same format.     *)
(***************************************************************************)
Date(d) == [date |-> d]

WindowBounds == {None} \cup {Date(d) : d \in 0..(MaxDate + 1)}

\* dt_transform["ds"].min() and .max()
DsMin(table) ==
    CHOOSE m \in {table[j].ds : j \in 1..Len(table)} :
        \A j \in 1..Len(table) : m <= table[j].ds

DsMax(table) ==
    CHOOSE m \in {table[j].ds : j \in 1..Len(table)} :
        \A j \in 1..Len(table) : m >= table[j].ds

\* RollingWindow with the upper bound excluded
RollingWindow_EndExcluded(table, from, to) ==
    IF from = None /\ to = None THEN [raised |-> FALSE, rows |-> table]
    ELSE IF from = None
    THEN IF to.date < DsMin(table) THEN [raised |-> TRUE, rows |-> <<>>]
         ELSE LET Keep(row) == row.ds < to.date
              IN [raised |-> FALSE, rows |-> SelectSeq(table, Keep)]
    ELSE IF to = None
    THEN IF from.date > DsMax(table) THEN [raised |-> TRUE, rows |-> <<>>]
         ELSE LET Keep(row) == row.ds >= from.date
              IN [raised |-> FALSE, rows |-> SelectSeq(table, Keep)]
    ELSE IF from.date > to.date THEN [raised |-> TRUE, rows |-> <<>>]
         ELSE LET Keep(row) == row.ds >= from.date /\ row.ds < to.date
              IN [raised |-> FALSE, rows |-> SelectSeq(table, Keep)]

\* the four branches of _create_rolling_window_data
RollingWindow(table, from, to) ==
    IF from = None /\ to = None THEN [raised |-> FALSE, rows |-> table]
    ELSE IF from = None
    THEN IF to.date < DsMin(table) THEN [raised |-> TRUE, rows |-> <<>>]
         ELSE LET Keep(row) == row.ds <= to.date
              IN [raised |-> FALSE, rows |-> SelectSeq(table, Keep)]
    ELSE IF to = None
    THEN IF from.date > DsMax(table) THEN [raised |-> TRUE, rows |-> <<>>]
         ELSE LET Keep(row) == row.ds >= from.date
              IN [raised |-> FALSE, rows |-> SelectSeq(table, Keep)]
    ELSE IF from.date > to.date THEN [raised |-> TRUE, rows |-> <<>>]
         ELSE LET Keep(row) == row.ds >= from.date /\ row.ds <= to.date
              IN [raised |-> FALSE, rows |-> SelectSeq(table, Keep)]

WindowInit ==
    /\ SearchIdle
    /\ ParetoIdle
    /\ EvaluateIdle
    /\ TransformIdle
    /\ DecompIdle
    /\ ResponseIdle
    /\ VisualizerIdle
    /\ FitIdle
    /\ \E n \in 1..MaxLen : \E ds \in [1..n -> 1..MaxDate] :
          dt_transform = [j \in 1..n |-> [row |-> j, ds |-> ds[j]]]
    /\ window_start \in WindowBounds
    /\ window_end \in WindowBounds
    /\ wpc = "create_rolling_window_data"
    /\ dt_modRollWind = <<>>
    /\ werror = NoError

\* the call returns the filtered table
RollingWindowReturns ==
    /\ wpc = "create_rolling_window_data"
    /\ ~RollingWindow(dt_transform, window_start, window_end).raised
    /\ dt_modRollWind' = RollingWindow(dt_transform, window_start, window_end).rows
    /\ wpc' = "returned"
    /\ UNCHANGED <<dt_transform, window_start, window_end, werror>>
    /\ UNCHANGED <<svars, pvars, evars, tvars, dvars, rvars, vvars, fvars>>

\* the call raises; the except block logs and re-raises
RollingWindowRaises ==
    /\ wpc = "create_rolling_window_data"
    /\ RollingWindow(dt_transform, window_start, window_end).raised
    /\ werror' = Raise("ValueError", "_create_rolling_window_data")
    /\ wpc' = "raised"
    /\ UNCHANGED <<dt_transform, window_start, window_end, dt_modRollWind>>
    /\ UNCHANGED <<svars, pvars, evars, tvars, dvars, rvars, vvars, fvars>>

WindowNext ==
    \/ RollingWindowReturns
    \/ RollingWindowRaises

WindowSpec == WindowInit /\ [][WindowNext]_vars

(***************************************************************************)
(* FeatureEngineering._run_models and _fit_spend_exposure.  The data of a  *)
(* channel are kept as far as the fit depends on them: whether the table   *)
(* has rows and whether the spend and exposure columns are finite (missing *)
(* values are filled only after _run_models).  curve_fit and               *)
(* LinearRegression.fit raise ValueError on NaN or inf; on finite data     *)
(* curve_fit converges or raises, the linear fit succeeds, and the two     *)
(* R-squared are any values, NaN included.                                 *)
(***************************************************************************)
RsqVals == {Fin(0), Fin(1), NaN}

\* if rsq_nls > rsq_lm: model_type = "nls" else: model_type = "lm"
SelectModel(rsq_nls, rsq_lm) ==
    IF FLess(rsq_lm, rsq_nls) THEN "nls" ELSE "lm"

\* res of _fit_spend_exposure; block is the block that built it
FitResult(channel, model_type, rsq, block) ==
    [channel |-> channel, model_type |-> model_type, rsq |-> rsq, block |-> block]

FitInit ==
    /\ SearchIdle
    /\ ParetoIdle
    /\ EvaluateIdle
    /\ TransformIdle
    /\ DecompIdle
    /\ ResponseIdle
    /\ VisualizerIdle
    /\ WindowIdle
    /\ roll_wind_empty \in BOOLEAN
    /\ \E n \in 1..MaxChannels : \E finite \in [1..n -> BOOLEAN] :
          /\ media_data = [c \in 1..n |-> [finite |-> finite[c]]]
          /\ modNLS = [c \in 1..n |-> None]
    /\ fpc = "fit_spend_exposure"
    /\ channel_i = 1
    /\ ferror = NoError

InChannelLoop == fpc = "fit_spend_exposure" /\ channel_i <= Len(media_data)

\* exposure_data.empty: _fit_spend_exposure returns None, nothing is recorded
FitSkipsEmpty ==
    /\ InChannelLoop
    /\ roll_wind_empty
    /\ channel_i' = channel_i + 1
    /\ UNCHANGED <<roll_wind_empty, media_data, fpc, modNLS, ferror>>
    /\ UNCHANGED <<svars, pvars, evars, tvars, dvars, rvars, vvars, wvars>>

\* the try block completes: both models are fitted and one is selected
FitSelects ==
    /\ InChannelLoop
    /\ ~roll_wind_empty
    /\ media_data[channel_i].finite
    /\ \E rsq_nls \in RsqVals, rsq_lm \in RsqVals :
          LET model_type == SelectModel(rsq_nls, rsq_lm)
          IN modNLS' = [modNLS EXCEPT ![channel_i] =
                           FitResult(channel_i, model_type,
                                     IF model_type = "nls" THEN rsq_nls ELSE rsq_lm,
                                     "try")]
    /\ channel_i' = channel_i + 1
    /\ UNCHANGED <<roll_wind_empty, media_data, fpc, ferror>>
    /\ UNCHANGED <<svars, pvars, evars, tvars, dvars, rvars, vvars, wvars>>

\* curve_fit raises on finite data; the except block fits the linear model
FitFallsBack ==
    /\ InChannelLoop
    /\ ~roll_wind_empty
    /\ media_data[channel_i].finite
    /\ \E rsq_lm \in RsqVals :
          modNLS' = [modNLS EXCEPT ![channel_i] = FitResult(channel_i, "lm", rsq_lm, "except")]
    /\ channel_i' = channel_i + 1
    /\ UNCHANGED <<roll_wind_empty, media_data, fpc, ferror>>
    /\ UNCHANGED <<svars, pvars, evars, tvars, dvars, rvars, vvars, wvars>>

\* curve_fit raises on NaN or inf; lm.fit of the except block raises on the
\* same data, and neither _fit_spend_exposure nor _run_models catches it
FitRaisesInFallback ==
    /\ InChannelLoop
    /\ ~roll_wind_empty
    /\ ~media_data[channel_i].finite
    /\ ferror' = Raise("ValueError", "_fit_spend_exposure")
    /\ fpc' = "raised"
    /\ UNCHANGED <<roll_wind_empty, media_data, channel_i, modNLS>>
    /\ UNCHANGED <<svars, pvars, evars, tvars, dvars, rvars, vvars, wvars>>

\* the loop over paid_media_spends is over: _run_models returns modNLS
RunModelsReturns ==
    /\ fpc = "fit_spend_exposure"
    /\ channel_i > Len(media_data)
    /\ fpc' = "returned"
    /\ UNCHANGED <<roll_wind_empty, media_data, channel_i, modNLS, ferror>>
    /\ UNCHANGED <<svars, pvars, evars, tvars, dvars, rvars, vvars, wvars>>

FitNext ==
    \/ FitSkipsEmpty
    \/ FitSelects
    \/ FitFallsBack
    \/ FitRaisesInFallback
    \/ RunModelsReturns

FitSpec == FitInit /\ [][FitNext]_vars

(***************************************************************************)
NothingToOptimize == \A n \in HyperNames : ~IsBound(hyperparameters[n])

CallPattern == <<"ask", "evaluate", "tell">>

\* the calls so far are a prefix of ask_1, evaluate_1, tell_1, ask_2, ...,
\* each evaluate is of the candidate just asked and each tell reports the
\* loss of the evaluation just before it
CallsWellFormed ==
    \A j \in 1..Len(calls) :
        /\ calls[j].op = CallPattern[((j - 1) % 3) + 1]
        /\ calls[j].op = "evaluate" => calls[j].params = calls[j - 1].params
        /\ calls[j].op = "tell" =>
              /\ calls[j].params = calls[j - 1].params
              /\ calls[j].loss = calls[j - 1].loss

TrialLeftLoop == optimizer.num_ask > 0 /\ pc \notin {"ask", "evaluate", "tell"}

\* C1: a trial with budget N performs exactly ask_1, evaluate_1, tell_1, ...,
\* ask_N, evaluate_N, tell_N, each tell reporting the loss of the preceding
\* ask's candidate; there is no early exit and the trial result is produced
\* only after tell_N.  (Stated for runs with something to optimize.)
C1_FullCallSequence ==
    ~NothingToOptimize =>
        /\ CallsWellFormed
        /\ pc = "return" => Len(calls) = 3 * iterations
        /\ TrialLeftLoop => Len(calls) = 3 * iterations

TrialEmitted == pc = "model_train" /\ trials # <<>>
LastTrial == trials[Len(trials)]

IsMinimalLoss(l) ==
    /\ l.k # "nan"
    /\ \A j \in 1..Len(evals) : ~FLess(evals[j].loss, l)

HoldsIteration(t, i) ==
    /\ t.iter_ng = i
    /\ t.nrmse = evals[i].nrmse
    /\ t.decomp_rssd = evals[i].decomp_rssd
    /\ t.mape = evals[i].mape
    /\ DOMAIN t.result_hyp_param = (DOMAIN evals[i].params) \cup {"solID"}
    /\ \A n \in DOMAIN evals[i].params : t.result_hyp_param[n] = evals[i].params[n]

\* C2: the TrialResult of a trial holds the nrmse, decomp_rssd, mape,
\* hyperparameters and iteration index of one iteration i whose loss is the
\* minimum over all iterations of the trial, the earliest such i.
C2_BestIsFirstMinimum ==
    TrialEmitted =>
        \E i \in 1..Len(evals) :
            /\ HoldsIteration(LastTrial, i)
            /\ IsMinimalLoss(evals[i].loss)
            /\ \A j \in 1..(i - 1) : evals[j].loss # evals[i].loss

\* a trial was emitted whose two iterations tie in loss with different metrics
C2_Witness ==
    /\ TrialEmitted
    /\ Len(evals) = 2
    /\ evals[1].loss = evals[2].loss
    /\ evals[1].loss.k = "fin"
    /\ evals[1].nrmse # evals[2].nrmse
    /\ evals[1].params # evals[2].params

EvaluationFailed ==
    \E j \in 1..Len(calls) : calls[j].op = "evaluate" /\ calls[j].loss = None

\* C3: a failure of a candidate's evaluation does not escape the search loop:
\* the optimizer is told a finite loss for the candidate and the remaining
\* iterations of the trial still run.  (Stated for runs with something to
\* optimize.)
C3_FailureContained ==
    (EvaluationFailed /\ ~NothingToOptimize) =>
        /\ pc # "raised"
        /\ error = NoError
        /\ pc \notin {"evaluate", "tell"} => optimizer.num_tell = optimizer.num_ask

NoHyperparametersError ==
    error.type = "ValueError: No hyperparameters to optimize"

\* C4: with nothing to optimize the search raises the 'No hyperparameters to
\* optimize' error before any optimizer is constructed, asked or told, in
\* build_models as in _setup_nevergrad_optimizer.
C4_FailsFastWithoutDimensions ==
    NothingToOptimize =>
        /\ ~optimizer.constructed
        /\ optimizer.num_ask = 0
        /\ optimizer.num_tell = 0
        /\ pc \in {"raised", "returned"} => NoHyperparametersError

(***************************************************************************)
(* Properties of the Pareto selection.                                     *)
(***************************************************************************)
Dominates(p, q) == p.x <= q.x /\ p.y <= q.y /\ (p.x < q.x \/ p.y < q.y)

PointsOf(rows) == {[x |-> rows[j].x, y |-> rows[j].y] : j \in 1..Len(rows)}

\* the points handed to _pareto_fronts
AdmissiblePoints == PointsOf(SortedPoints(resultHypParamPareto))

LabelledBelow(k) ==
    PointsOf(SelectSeq(pareto_fronts_df, LAMBDA r : r.pareto_front < k))

FrontPoints(k) ==
    PointsOf(SelectSeq(pareto_fronts_df, LAMBDA r : r.pareto_front = k))

\* the points left after fronts 1..k-1 are removed
RemainingAfter(k) == AdmissiblePoints \ LabelledBelow(k)

NonDominated(S) == {p \in S : ~\E q \in S : Dominates(q, p)}

InParetoFronts == ~hyper_fixed /\ ppc = "pareto_fronts_loop"
AfterParetoFronts ==
    ~hyper_fixed /\ ppc \in {"prepare_pareto_data", "raised", "response_curves"}

\* C5: front 1 is exactly the non-dominated set of the admissible
\* population over (nrmse, decomp.rssd), and each front k is the
\* non-dominated subset of the points left after fronts 1..k-1 are removed.
C5_FrontsAreNonDominatedSets ==
    (InParetoFronts \/ AfterParetoFronts) =>
        \A k \in 1..(front_i - 1) : FrontPoints(k) = NonDominated(RemainingAfter(k))

\* C6: every point labelled with a front number k > 1 is dominated by some
\* point labelled with a smaller front number, and by no point that was
\* still unlabelled after fronts 1..k-1 were removed.
C6_LaterFrontsDominatedFromBelow ==
    \A j \in 1..Len(pareto_fronts_df) :
        LET r == pareto_fronts_df[j]
        IN r.pareto_front > 1 =>
              /\ \E q \in LabelledBelow(r.pareto_front) : Dominates(q, r)
              /\ ~\E u \in RemainingAfter(r.pareto_front) : Dominates(u, r)

\* _pareto_fronts has labelled a point with front number 2
C6_Witness ==
    /\ InParetoFronts
    /\ \E j \in 1..Len(pareto_fronts_df) : pareto_fronts_df[j].pareto_front = 2

\* C7: with pareto_fronts = "auto" the loop of _pareto_fronts terminates for
\* every finite admissible population (every pass labels a point, so there
\* are at most as many passes as points), and on return every admissible
\* point carries exactly one front number.
C7_AutoLoopTerminates ==
    /\ (InParetoFronts /\ pareto_fronts.auto) =>
          front_i <= Len(resultHypParamPareto) + 1
    /\ (AfterParetoFronts /\ pareto_fronts.auto) =>
          /\ data = <<>>
          /\ Len(pareto_fronts_df) = Len(resultHypParamPareto)

\* C8: with hyperparameters not fixed, a candidate has a front number in the
\* table returned by _compute_pareto_fronts only if it passes the
\* admissibility filter over the whole population (mape <= its
\* calibration_constraint quantile, nrmse and decomp.rssd <= their 0.9
\* quantiles); a candidate failing any of the three has none.
C8_OnlyAdmissibleLabelled ==
    AfterParetoFronts =>
        \A j \in 1..Len(result_hyp_param) :
            LET row == result_hyp_param[j]
            IN NotNa(row) =>
                  /\ 10 * row.mape <=
                        Quantile10(Column(result_hyp_param, "mape"),
                                   calibration_constraint)
                  /\ 10 * row.nrmse <=
                        Quantile10(Column(result_hyp_param, "nrmse"), 9)
                  /\ 10 * row.decomp_rssd <=
                        Quantile10(Column(result_hyp_param, "decomp_rssd"), 9)

\* a returned table in which one candidate is labelled and another one, which
\* fails only the decomp.rssd quantile, is not
C8_Witness ==
    /\ AfterParetoFronts
    /\ \E j \in 1..Len(result_hyp_param) : NotNa(result_hyp_param[j])
    /\ \E j \in 1..Len(result_hyp_param) :
          LET row == result_hyp_param[j]
          IN /\ ~NotNa(row)
             /\ 10 * row.decomp_rssd >
                   Quantile10(Column(result_hyp_param, "decomp_rssd"), 9)
             /\ 10 * row.nrmse <= Quantile10(Column(result_hyp_param, "nrmse"), 9)
             /\ 10 * row.mape <=
                   Quantile10(Column(result_hyp_param, "mape"),
                              calibration_constraint)

PrepareDone == ppc \in {"raised", "response_curves"}

NPareto == Cardinality({j \in 1..Len(result_hyp_param) : NotNa(result_hyp_param[j])})

\* C9: under pareto_fronts = "auto", whenever the candidates carrying a front
\* number are at least min_candidates (equality included),
\* prepare_pareto_data succeeds and the candidates of the selected fronts
\* number at least min_candidates.
C9_AchievableThresholdSucceeds ==
    (PrepareDone /\ pareto_fronts.auto /\ NPareto >= min_candidates) =>
        /\ ppc = "response_curves"
        /\ perror = NoError
        /\ Len(pareto_data.result_hyp_param) >= min_candidates

\* the "auto" branch of prepare_pareto_data is the one taken
AutoBranch == pareto_fronts.auto /\ ~hyper_fixed /\ Len(result_hyp_param) # 1

C11_HyperFixedAllFrontOne ==
    (hyper_fixed /\ ppc # "compute_pareto_fronts" /\ ppc # "idle") =>
        /\ resultHypParamPareto = <<>>
        /\ pareto_fronts_df = <<>>
        /\ front_i = 1
        /\ \A j \in 1..Len(result_hyp_param) :
              result_hyp_param[j].robynPareto = Fin(1)
        /\ ppc # "raised"
        /\ ppc = "response_curves" =>
              /\ pareto_data.pareto_fronts = 1
              /\ pareto_data.result_hyp_param = result_hyp_param

\* a hyper_fixed run of several candidates, called with "auto" and more
\* min_candidates than candidates, has returned its ParetoData
C11_Witness ==
    /\ hyper_fixed
    /\ ppc = "response_curves"
    /\ pareto_fronts.auto
    /\ Len(result_hyp_param) > 1
    /\ min_candidates > Len(result_hyp_param)
    /\ Len(pareto_data.result_hyp_param) = Len(result_hyp_param)

(***************************************************************************)
(* Properties of the trials of a run.                                      *)
(***************************************************************************)
InTrial == pc \in {"ask", "evaluate", "tell", "return"}

AllTrialsEmitted == trial > n_trials /\ Len(trials) = n_trials

\* C12: a run of build_models with T trials and base seed s executes trials
\* 1..T, trial t seeded with s + t and searched by an optimizer created for
\* it, completes, and returns outputs holding exactly T TrialResults in trial
\* order, the t-th with trial index t.
C12_AllTrialsReturned ==
    (entry = "build_models" /\ ~NothingToOptimize) =>
        /\ InTrial =>
              /\ trial \in 1..n_trials
              /\ np_seed = seed + trial
              /\ optimizer.budget = iterations
              /\ optimizer.num_tell = iter_ng
        /\ Len(trials) <= n_trials
        /\ \A t \in 1..Len(trials) : trials[t].trial = t
        /\ AllTrialsEmitted => (pc # "raised" /\ error = NoError)

\* C13: every TrialResult's solution ID is "<trial>_<iter>_1" with <trial>
\* the trial's index and <iter> in 1..iterations, the 1-based iteration at
\* which the retained best loss was first observed; sol_id, iter_ng and the
\* solID of the hyperparameter row agree.
C13_SolIDConsistent ==
    /\ \A j \in 1..Len(trials) :
          LET t == trials[j]
          IN /\ t.trial = j
             /\ t.iter_ng \in 1..iterations
             /\ t.sol_id = <<t.trial, t.iter_ng, 1>>
             /\ t.result_hyp_param["solID"] = t.sol_id
    /\ TrialEmitted =>
          /\ evals[LastTrial.iter_ng].loss = best.loss
          /\ \A j \in 1..(LastTrial.iter_ng - 1) : evals[j].loss # best.loss

\* a second trial was emitted, or a trial whose best loss was first observed
\* at its second iteration
C13_Witness ==
    /\ TrialEmitted
    /\ ~NothingToOptimize
    /\ \/ LastTrial.sol_id = <<1, 2, 1>> /\ FLess(evals[2].loss, evals[1].loss)
       \/ LastTrial.sol_id = <<2, 1, 1>>

\* C14: at every iteration the assignment handed to the evaluator is fully
\* specified: it holds every hyperparameter of the space, a searched one at a
\* value inside its [lower, upper] bound and a fixed one at its constant.
C14_FullySpecifiedAssignment ==
    (pc = "evaluate" /\ ~NothingToOptimize) =>
        /\ DOMAIN candidate = DOMAIN hyperparameters
        /\ \A n \in DOMAIN hyperparameters :
              LET value == hyperparameters[n]
              IN IF IsBound(value)
                 THEN value.items[1] <= candidate[n] /\ candidate[n] <= value.items[2]
                 ELSE candidate[n] = value.items[1]

\* C15: evaluating the same hyperparameter vector twice on the same data with
\* the same seed yields identical loss and metrics: the evaluation works on
\* the same design matrix whatever the number of evaluations before it.
C15_EvaluationDeterministic ==
    \A i, j \in 1..Len(evals) :
        (evals[i].params = evals[j].params /\ ~NothingToOptimize) =>
            /\ evals[i].loss = evals[j].loss
            /\ evals[i].nrmse = evals[j].nrmse
            /\ evals[i].decomp_rssd = evals[j].decomp_rssd
            /\ evals[i].mape = evals[j].mape

(***************************************************************************)
(* Properties of one evaluation.                                           *)
(***************************************************************************)
RECURSIVE SeqSum(_)
SeqSum(q) == IF q = <<>> THEN 0 ELSE Head(q) + SeqSum(Tail(q))

ActiveTerms == IF calibration_input THEN 3 ELSE 2

\* C16: the objective weights applied in the loss sum to 1 (6 units of 1/6)
\* and there is one weight per active term: by default 1/2, 1/2 without
\* calibration and 1/3, 1/3, 1/3 with it, and caller-supplied weights are
\* normalized to sum to 1 before they are used.
C16_WeightsNormalized ==
    epc = "returned" =>
        /\ Len(returned.weights) = ActiveTerms
        /\ objective_weights = <<>> =>
              returned.weights = (IF calibration_input THEN <<2, 2, 2>> ELSE <<3, 3>>)
        /\ Len(objective_weights) \in {0, ActiveTerms}
        /\ SeqSum(returned.weights) = 6

Scored == epc \in {"mape", "returned"}

\* C17: the nrmse reported for a candidate and entering its loss is the
\* validation-partition NRMSE when ts_validation is enabled and the
\* training-partition NRMSE when it is disabled; in the disabled case no
\* validation or test NRMSE is produced.
C17_NrmseFollowsValidation ==
    /\ (Scored /\ ts_validation) =>
          /\ fit_scores.nrmse_val # None
          /\ fit_scores.nrmse = fit_scores.nrmse_val
    /\ (Scored /\ ~ts_validation) =>
          /\ fit_scores.nrmse = fit_scores.nrmse_train
          /\ fit_scores.nrmse_val = None
          /\ fit_scores.nrmse_test = None
    /\ epc = "returned" =>
          /\ returned.nrmse = fit_scores.nrmse
          /\ returned.loss =
                 FAdd(FScale(returned.weights[1], fit_scores.nrmse),
                      FScale(returned.weights[2], returned.decomp_rssd))

\* an evaluation with validation returned, its validation NRMSE differing
\* from its training NRMSE
C17_Witness ==
    /\ epc = "returned"
    /\ ts_validation
    /\ fit_scores.nrmse_val # fit_scores.nrmse_train
    /\ fit_scores.nrmse_val # fit_scores.nrmse_test
    /\ returned.nrmse = fit_scores.nrmse_val

SplitDone == epc \in {"fit", "mape", "returned"}

\* C18: with ts_validation enabled, train, validation and test are three
\* contiguous, pairwise disjoint row ranges in the original time order (train,
\* then validation, then test) that together cover every row, the validation
\* and test sizes differing by at most one; with ts_validation disabled,
\* train is the whole window and validation and test are absent.
C18_ChronologicalSplit ==
    /\ (SplitDone /\ ts_validation) =>
          /\ X_train \o X_val \o X_test = Rows(n_rows)
          /\ Len(X_val) - Len(X_test) \in {-1, 0, 1}
    /\ (SplitDone /\ ~ts_validation) =>
          /\ X_train = Rows(n_rows)
          /\ X_val = None
          /\ X_test = None

\* a split with validation whose validation and test sizes differ
C18_Witness ==
    /\ SplitDone
    /\ ts_validation
    /\ Len(X_train) > 1
    /\ Len(X_val) >= 1
    /\ Len(X_test) = Len(X_val) + 1

(***************************************************************************)
(* Properties of the media transformations.                                *)
(***************************************************************************)
\* output[0] = input[0], output[t] = input[t] + theta * output[t-1]
RECURSIVE GeometricDecay(_, _, _)
GeometricDecay(s, t, th) ==
    IF t = 1 THEN Scale * s[1]
    ELSE Scale * s[t] + (th * GeometricDecay(s, t - 1, th)) \div FracDen

BothAdstocked == tpc \in {"summaries", "done"}

\* C19: both geometric adstock implementations return, for every series and
\* every theta in [0,1), the series output[0] = input[0],
\* output[t] = input[t] + theta * output[t-1]; hence they agree with each
\* other, are the identity at theta = 0 and are nowhere below a non-negative
\* input.
C19_AdstocksFollowRecurrence ==
    BothAdstocked =>
        /\ \A t \in DOMAIN spend :
              /\ ridge_adstocked[t] = GeometricDecay(spend, t, theta)
              /\ fe_adstocked[t] = GeometricDecay(spend, t, theta)
              /\ ridge_adstocked[t] >= Scale * spend[t]
              /\ fe_adstocked[t] >= Scale * spend[t]
              /\ theta = 0 =>
                    /\ ridge_adstocked[t] = Scale * spend[t]
                    /\ fe_adstocked[t] = Scale * spend[t]
        /\ ridge_adstocked = fe_adstocked

HillDone == tpc \in {"fe_adstock", "summaries", "done"}

Constant(s) == SeriesMax(s) = SeriesMin(s)

\* C20: for a channel whose series is all zero (more generally constant, so
\* that max equals min) the Hill saturation returns all zeros and the
\* per-channel ROI / CPA summaries are defined values: no NaN and no
\* infinite value is produced.
C20_ConstantSeriesDefined ==
    /\ (HillDone /\ Constant(ridge_adstocked)) =>
          \A t \in DOMAIN hill_saturated : hill_saturated[t] = Ratio(0, 1)
    /\ (tpc = "done" /\ SeriesSum(spend) = 0) =>
          /\ summaries.roi_mean.k = "fin"
          /\ summaries.roi_total.k = "fin"
          /\ summaries.cpa_mean.k = "fin"
          /\ summaries.cpa_total.k = "fin"

(***************************************************************************)
(* Properties of the labelled and of the retained population.              *)
(***************************************************************************)
\* the front number of the candidate solID in result_hyp_param
FrontNumberOf(solID) ==
    {result_hyp_param[j].robynPareto :
        j \in {h \in 1..Len(result_hyp_param) : result_hyp_param[h].solID = solID}}

\* the rows of the inner value merge of _compute_pareto_fronts
ValueMerged == ValueMerge(resultHypParamPareto, pareto_fronts_df)

Labelled == ~hyper_fixed /\ ppc \in {"prepare_pareto_data", "raised", "response_curves"}

\* same sequence of candidates before and after the step
SameCandidates ==
    Column(result_hyp_param', "solID") = Column(result_hyp_param, "solID")

\* C25: admissible candidates with identical (nrmse, decomp.rssd) receive the
\* same front number; the value merge gives every candidate at most one front
\* number; and _compute_pareto_fronts keeps exactly one row per candidate, in
\* the order of the population.
C25_TiesShareFrontOneRowEach ==
    /\ [](Labelled =>
            LET merged == ValueMerged
            IN /\ \A a, b \in 1..Len(resultHypParamPareto) :
                     (resultHypParamPareto[a].nrmse = resultHypParamPareto[b].nrmse
                      /\ resultHypParamPareto[a].decomp_rssd =
                             resultHypParamPareto[b].decomp_rssd)
                     => FrontNumberOf(resultHypParamPareto[a].solID) =
                           FrontNumberOf(resultHypParamPareto[b].solID)
               /\ \A a, b \in 1..Len(merged) :
                     merged[a].solID = merged[b].solID
                     => merged[a].robynPareto = merged[b].robynPareto
               /\ \A a, b \in 1..Len(result_hyp_param) :
                     result_hyp_param[a].solID = result_hyp_param[b].solID => a = b)
    /\ [][ParetoFrontsReturn => SameCandidates]_vars

\* two admissible candidates with the same pair of metrics were labelled, the
\* value merge giving each of them several rows
C25_Witness ==
    /\ Labelled
    /\ Len(ValueMerged) > Len(resultHypParamPareto)
    /\ \E a, b \in 1..Len(result_hyp_param) :
          /\ a # b
          /\ result_hyp_param[a].nrmse = result_hyp_param[b].nrmse
          /\ result_hyp_param[a].decomp_rssd = result_hyp_param[b].decomp_rssd
          /\ result_hyp_param[a].robynPareto = Fin(2)
          /\ result_hyp_param[b].robynPareto = Fin(2)

\* distinct candidates of result_hyp_param labelled with a front in 1..f
DistinctIn(f) ==
    Cardinality({result_hyp_param[j].solID :
                    j \in {h \in 1..Len(result_hyp_param) :
                              /\ result_hyp_param[h].robynPareto # NaN
                              /\ result_hyp_param[h].robynPareto.v \in 1..f}})

AutoSelected == ppc = "response_curves" /\ AutoBranch

\* C26: under pareto_fronts = "auto" the selected front count k is the
\* smallest front number whose cumulative count of distinct candidates in
\* fronts 1..k is >= min_candidates, and no candidate of a front beyond k is
\* retained.
C26_SmallestSufficientFront ==
    AutoSelected =>
        LET k == pareto_data.pareto_fronts
        IN /\ DistinctIn(k) >= min_candidates
           /\ \A f \in 1..(k - 1) : DistinctIn(f) < min_candidates
           /\ \A j \in 1..Len(pareto_data.result_hyp_param) :
                 pareto_data.result_hyp_param[j].robynPareto.v <= k

\* the first front was too small and the second front, holding two
\* candidates, was selected
C26_Witness ==
    /\ AutoSelected
    /\ pareto_data.pareto_fronts = 2
    /\ DistinctIn(1) = 1
    /\ min_candidates = 2
    /\ DistinctIn(2) = 3

\* the candidate solID carries a front number in 1..k
InFronts(solID, k) ==
    \E j \in 1..Len(result_hyp_param) :
        /\ result_hyp_param[j].solID = solID
        /\ result_hyp_param[j].robynPareto # NaN
        /\ result_hyp_param[j].robynPareto.v \in 1..k

\* the rows of table whose candidate carries a front number in 1..k, each
\* with that front number
RowsInFronts(table, k) ==
    LET Keep(row) == InFronts(row.solID, k)
        kept == SelectSeq(table, Keep)
    IN [j \in 1..Len(kept) |->
           WithRobynPareto(kept[j],
                           CHOOSE f \in FrontNumberOf(kept[j].solID) : TRUE)]

\* C27: after prepare_pareto_data the retained hyperparameter table, the
\* decomposition table and the spend-distribution table hold exactly the rows
\* of the candidates whose front number is in 1..k, k the resolved front
\* count; a candidate without front number is in none of them.
C27_RetainedTablesMatchFronts ==
    ppc = "response_curves" =>
        LET k == pareto_data.pareto_fronts
            Kept(row) == InFronts(row.solID, k)
            SolIDs(table) == {table[r].solID : r \in 1..Len(table)}
            retained == SolIDs(pareto_data.result_hyp_param)
                            \cup SolIDs(pareto_data.x_decomp_agg)
                            \cup SolIDs(pareto_data.decomp_spend_dist)
        IN /\ pareto_data.result_hyp_param = SelectSeq(result_hyp_param, Kept)
           /\ pareto_data.x_decomp_agg =
                 RowsInFronts(AggregatedDecomp(result_hyp_param), k)
           /\ pareto_data.decomp_spend_dist =
                 RowsInFronts(
                     WithSolIDColumn(TrialSpendDist(result_hyp_param, hyper_fixed),
                                     hyper_fixed), k)
           /\ \A j \in 1..Len(result_hyp_param) :
                 result_hyp_param[j].robynPareto = NaN =>
                    result_hyp_param[j].solID \notin retained

\* one candidate is retained, one is labelled with a later front and one is
\* not labelled
C27_Witness ==
    /\ ppc = "response_curves"
    /\ pareto_data.pareto_fronts = 1
    /\ Len(pareto_data.result_hyp_param) = 1
    /\ Len(pareto_data.x_decomp_agg) = Len(PaidMediaSpends)
    /\ Len(pareto_data.decomp_spend_dist) = Len(PaidMediaSpends)
    /\ \E a, b \in 1..Len(result_hyp_param) :
          /\ result_hyp_param[a].robynPareto = NaN
          /\ result_hyp_param[b].robynPareto = Fin(2)

(***************************************************************************)
(* Properties of the response-curve computation.                           *)
(***************************************************************************)
\* the ParetoData handed to _compute_response_curves
InitialParetoData ==
    [decomp_spend_dist |-> LeftMergeRobynPareto(decomp_spend_dist, result_hyp_param),
     result_hyp_param |-> result_hyp_param,
     x_decomp_agg |-> LeftMergeRobynPareto(x_decomp_agg, result_hyp_param),
     pareto_fronts |-> 1]

\* the result of the sequential (cores = 1) computation
SequentialResult ==
    MergedParetoData(InitialParetoData,
                     [j \in 1..Len(InitialParetoData.decomp_spend_dist) |->
                         RunDtResp(InitialParetoData.decomp_spend_dist[j],
                                   InitialParetoData)])

ResponsesMerged == ppc = "plot_data"

AllWorkersFinished == \A j \in 1..Len(futures) : futures[j].done

\* C21: with cores > 1 the merged response summaries are the same for every
\* completion order of the worker tasks and equal the cores = 1 result; the
\* row of every (solID, rn) pair receives the values computed for that pair;
\* the ParetoData is not changed while workers run and is written in one
\* step, after all workers have finished.
C21_MergeIndependentOfCompletionOrder ==
    /\ [](ResponsesMerged =>
            /\ pareto_data = SequentialResult
            /\ Len(pareto_data.decomp_spend_dist) = Len(decomp_spend_dist)
            /\ \A j \in 1..Len(decomp_spend_dist) :
                  LET row == pareto_data.decomp_spend_dist[j]
                      computed == RunDtResp(InitialParetoData.decomp_spend_dist[j],
                                            InitialParetoData)
                  IN /\ row.solID = decomp_spend_dist[j].solID
                     /\ row.rn = decomp_spend_dist[j].rn
                     /\ row.mean_response = computed.mean_response
                     /\ row.mean_spend_adstocked = computed.mean_spend_adstocked
                     /\ row.mean_carryover = computed.mean_carryover)
    /\ [](ppc \in {"response_curves", "as_completed"} =>
            pareto_data = InitialParetoData)
    /\ [][pareto_data' # pareto_data =>
            /\ ppc' = "plot_data"
            /\ AllWorkersFinished
            /\ cores > 1 => Len(completed) = Len(decomp_spend_dist)]_vars

\* the workers finished in an order other than the order of submission, with
\* different responses, and the results were merged
C21_Witness ==
    /\ ResponsesMerged
    /\ cores > 1
    /\ Len(completed) = MaxTasks
    /\ completed[1].solID = futures[MaxTasks].row.solID
    /\ completed[1].rn = futures[MaxTasks].row.rn
    /\ completed[1].mean_response # completed[MaxTasks].mean_response

(***************************************************************************)
(* Properties of the response-curve request.                               *)
(***************************************************************************)
RequestEnded == vpc \in {"raised", "returned"}

\* C22: a request of response curves for a solution ID that is not in the
\* retained population ends in the invalid-solution-ID ValueError with no
\* figure created, also for the ParetoResult that optimize builds; it ends
\* neither with a result nor with another kind of error.
C22_MissingIDRaisesValueError ==
    (RequestEnded /\ solution_id \notin pareto_solutions) =>
        /\ vpc = "raised"
        /\ verror.type = "ValueError: Invalid solution ID"
        /\ figures = 0

(***************************************************************************)
(* Properties of the rolling window.                                       *)
(***************************************************************************)
WindowCallEnded == wpc \in {"returned", "raised"}

\* the three cases in which the window is invalid
InvalidWindow ==
    \/ window_start # None /\ window_end # None /\ window_start.date > window_end.date
    \/ /\ window_start = None /\ window_end # None
       /\ \A j \in 1..Len(dt_transform) : window_end.date < dt_transform[j].ds
    \/ /\ window_end = None /\ window_start # None
       /\ \A j \in 1..Len(dt_transform) : window_start.date > dt_transform[j].ds

\* window_start <= ds <= window_end, a missing bound meaning unbounded
InWindow(row) ==
    /\ window_start # None => window_start.date <= row.ds
    /\ window_end # None => row.ds <= window_end.date

RunModelsEnded == fpc \in {"returned", "raised"}

\* C24: _run_models returns with a fit result recorded for every paid media
\* channel whose exposure data is non-empty, whatever fails during fitting:
\* no error leaves _fit_spend_exposure, a failed curve fit gives the linear
\* model, and the nonlinear model is recorded only with an R-squared above
\* the linear one.
C24_EveryChannelRecorded ==
    RunModelsEnded =>
        /\ fpc = "returned"
        /\ ferror = NoError
        /\ ~roll_wind_empty =>
              \A c \in 1..Len(media_data) :
                 /\ modNLS[c] # None
                 /\ modNLS[c].block = "except" => modNLS[c].model_type = "lm"

(***************************************************************************)
(* Properties of the split of the hyperparameters and of the best          *)
(* candidate of a trial.                                                   *)
(***************************************************************************)
Collected == entry = "build_models" /\ pc # "start"

\* C28: _hyper_collector splits the hyperparameters into two disjoint sets
\* that cover all of them; a parameter is in the set to optimize if and only
\* if its value is a 2-element list, otherwise it is in the fixed set, and in
\* either set it keeps its value.  _prepare_hyperparameters selects the same
\* parameters to optimize.
C28_SplitByTwoElementLists ==
    /\ Collected =>
          LET updated == hyper_collect.hyper_bound_list_updated
              fixed == hyper_collect.hyper_bound_list_fixed
          IN /\ DOMAIN updated \cap DOMAIN fixed = {}
             /\ DOMAIN updated \cup DOMAIN fixed = DOMAIN hyperparameters
             /\ \A n \in DOMAIN hyperparameters :
                   /\ n \in DOMAIN updated <=>
                         /\ hyperparameters[n].isList
                         /\ Len(hyperparameters[n].items) = 2
                   /\ n \in DOMAIN updated => updated[n] = hyperparameters[n]
                   /\ n \in DOMAIN fixed => fixed[n] = hyperparameters[n]
    /\ (entry = "setup_nevergrad_optimizer" /\ pc # "start") =>
          /\ hyper_collect.prepared_hyperparameters = hyperparameters
          /\ \A n \in DOMAIN hyperparameters :
                n \in DOMAIN hyper_collect.hyper_to_optimize <=>
                   /\ hyperparameters[n].isList
                   /\ Len(hyperparameters[n].items) = 2

\* one parameter is a range, the other a list that is not a range
C28_Witness ==
    /\ Collected
    /\ hyperparameters["tv_thetas"] = ListValue(<<0, 1>>)
    /\ hyperparameters["tv_alphas"] = ListValue(<<1>>)
    /\ DOMAIN hyper_collect.hyper_bound_list_updated = {"tv_thetas"}
    /\ hyper_collect.hyper_bound_list_fixed["tv_alphas"] = ListValue(<<1>>)

\* C29: the all_fixed flag of _hyper_collector is true exactly when the set
\* of parameters to optimize is empty.
C29_AllFixedIffNothingToOptimize ==
    Collected =>
        (hyper_collect.all_fixed <=>
            DOMAIN hyper_collect.hyper_bound_list_updated = {})

\* C30: after the loop of a trial with at least one iteration, whatever
\* losses the evaluator returned, the best parameters and the solution ID
\* are set, and the trial does not fail while its Trial is built.
C30_BestSetAfterLoop ==
    /\ (pc = "return" /\ iterations >= 1 /\ ~NothingToOptimize) =>
          /\ best.params # None
          /\ best.sol_id # None
    /\ ~NothingToOptimize =>
          ~(pc = "raised" /\ error = Raise("AttributeError",
                                           "_run_nevergrad_optimization"))

====
